---- MODULE Spec2Model ----
(***************************************************************************)
(* git-next: the advice-resolution engine.                                 *)
(*                                                                         *)
(* A RepoState snapshot is evaluated against the rule catalog, the         *)
(* matches are sorted by priority (sort.Sort over model.ByPriority) and    *)
(* the suppression table is applied (engine.Evaluate, applySuppression,    *)
(* extractCommand).                                                        *)
(*                                                                         *)
(* Strings that the code takes apart (command templates, command keys,     *)
(* suppression reasons) are sequences of their whitespace-separated        *)
(* tokens, so strings.Fields / Split / "+" are sequence operations:        *)
(*   "git merge --continue"  is  <<"git", "merge", "--continue">>          *)
(*   the key "merge --continue" is <<"merge", "--continue">>, "" is <<>>   *)
(* Descriptions are never taken apart and stay atomic strings (non-ASCII   *)
(* characters of two descriptions are written in ASCII).                   *)
(***************************************************************************)
EXTENDS Integers, Sequences, FiniteSets, TLC

VARIABLES
  goSort,    \* which sort.Sort the toolchain links: "pdqsort" (Go >= 1.19) or "quickSort" (Go <= 1.18)
  catalog,   \* which rules.AllRules the engine is built against: "modular" or "legacy"
  cfg,       \* the *config.Config object
  state,     \* the model.RepoState snapshot handed to Evaluate
  advice,    \* Evaluate's local advice slice
  pc,        \* position inside Evaluate
  results,   \* lists returned by the calls of Evaluate made so far
  exitStatus, \* the status main has exited with, -1 while it runs
  session    \* the locals of action.Execute and the processes it has started

vars == <<goSort, catalog, cfg, state, advice, pc, results, exitStatus, session>>

(***************************************************************************)
(* Bounds                                                                  *)
(***************************************************************************)
\* at most this many facts are set in a sparse snapshot (one more within a fact group)
MaxFacts == 2
\* a busy snapshot sets every fact of at most this many fact groups
MaxGroups == 3
\* file counts, ahead/behind counts and branch-list lengths range over 0..MaxCount
MaxCount == 1
\* CommitCountSincePush ranges over 0..MaxCommitCount
MaxCommitCount == 5

(***************************************************************************)
(* model.RepoState (pkg/model/types.go): the fields read by rule checks.   *)
(***************************************************************************)
BoolFacts ==
  {"Dirty", "HasStash", "OnDetachedHead", "LastCommitPushed", "OnProtectedBranch",
   "HasMergeCommits", "MergeInProgress", "RebaseInProgress", "CherryPickInProgress",
   "NoUpstream", "ForcePushToShared", "RewrittenPublishedTags", "ResetOnProtectedBranch",
   "SubmoduleRewriteNoUpdate", "AccidentalHistoryRewrite", "ConflictedFilesStaged",
   "LargeBinariesWithoutLFS", "LineEndingConflict", "SubmoduleDetachedHead",
   "ShallowCloneHistoryOps", "WorkOnMainNotFeature", "LongLivedFeatureBranch",
   "SquashRecommended", "WIPCommitOnShared", "RebaseInsteadOfMerge", "PoorCommitMessage",
   "AmendLastCommitSuggested", "UnpushedLocalTags", "StashStackGrowing",
   "RepoSizeGrowingFast", "OnDetachedHeadClean"}

CountFacts == {"StagedFiles", "ModifiedFiles", "UntrackedFiles", "Ahead", "Behind"}

ListFacts == {"MergedBranches", "GoneBranches", "InactiveBranches"}

Facts == BoolFacts \cup CountFacts \cup ListFacts \cup {"CommitCountSincePush"}

\* The comment groups of the RepoState struct.
FactGroups ==
  {
    {"Dirty", "StagedFiles", "ModifiedFiles", "UntrackedFiles", "Ahead", "Behind", "HasStash",
     "OnDetachedHead", "LastCommitPushed", "CommitCountSincePush", "OnProtectedBranch",
     "HasMergeCommits"},
    {"MergeInProgress", "RebaseInProgress", "CherryPickInProgress"},
    {"NoUpstream", "MergedBranches", "GoneBranches"},
    {"ForcePushToShared", "RewrittenPublishedTags", "ResetOnProtectedBranch",
     "SubmoduleRewriteNoUpdate", "AccidentalHistoryRewrite"},
    {"ConflictedFilesStaged", "LargeBinariesWithoutLFS", "LineEndingConflict",
     "SubmoduleDetachedHead", "ShallowCloneHistoryOps"},
    {"WorkOnMainNotFeature", "LongLivedFeatureBranch", "SquashRecommended", "WIPCommitOnShared",
     "RebaseInsteadOfMerge"},
    {"PoorCommitMessage", "AmendLastCommitSuggested", "UnpushedLocalTags", "StashStackGrowing"},
    {"RepoSizeGrowingFast", "InactiveBranches", "OnDetachedHeadClean"}
  }

BranchNames(n) == [k \in 1..n |-> "branch"]

\* The snapshot whose set facts are exactly S: counts and list lengths n, commit count c.
RepoState(S, n, c) ==
  [f \in Facts |->
     CASE f \in BoolFacts  -> f \in S
       [] f \in CountFacts -> IF f \in S THEN n ELSE 0
       [] f \in ListFacts  -> IF f \in S THEN BranchNames(n) ELSE <<>>
       [] OTHER            -> IF f \in S THEN c ELSE 0]

RECURSIVE SubsetsUpTo(_)
SubsetsUpTo(k) ==
  IF k = 0 THEN {{}}
  ELSE LET prev == SubsetsUpTo(k - 1)
       IN prev \cup {s \cup {f} : s \in prev, f \in Facts}

RECURSIVE GroupUnions(_)
GroupUnions(k) ==
  IF k = 0 THEN {{}}
  ELSE LET prev == GroupUnions(k - 1)
       IN prev \cup {s \cup g : s \in prev, g \in FactGroups}

\* the sets of at most k facts taken from one fact group
GroupSubsets(k) ==
  UNION {{S \in SUBSET g : Cardinality(S) <= k} : g \in FactGroups}

\* Sparse snapshots, snapshots with one more fact when the facts are of one group, and
\* busy snapshots made of whole fact groups.
FactSets == SubsetsUpTo(MaxFacts) \cup GroupSubsets(MaxFacts + 1) \cup GroupUnions(MaxGroups)

\* n and c are only varied where the snapshot has a count or a commit count to set
SnapshotParams ==
  {p \in FactSets \X (1..MaxCount) \X (1..MaxCommitCount) :
     /\ p[2] = 1 \/ p[1] \cap (CountFacts \cup ListFacts) # {}
     /\ p[3] = 1 \/ "CommitCountSincePush" \in p[1]}

Snapshots == {RepoState(p[1], p[2], p[3]) : p \in SnapshotParams}

(***************************************************************************)
(* config.Config (internal/config/config.go)                               *)
(***************************************************************************)
\* the dynamic values yaml.Unmarshal stores in map[string]interface{}: a float64 is the
\* ratio val / den with den > 0, every other value has den = 1
IntVal(n) == [type |-> "int", val |-> n, den |-> 1]
FloatRatio(n, d) == [type |-> "float64", val |-> n, den |-> d]
FloatVal(n) == FloatRatio(n, 1)
StringVal(s) == [type |-> "string", val |-> s, den |-> 1]
BoolVal(b) == [type |-> "bool", val |-> b, den |-> 1]

\* the conversion int(v) of a float64: the fraction is discarded (truncation toward zero)
intOf(v) == IF v.val >= 0 THEN v.val \div v.den ELSE 0 - ((0 - v.val) \div v.den)

\* Defaults()
Defaults ==
  [ProtectedBranches |-> <<"main", "master", "develop", "production">>,
   Rules |-> [Disabled |-> <<>>,
              Parameters |-> ("R020" :> ("max_commits" :> IntVal(3))) @@
                             ("R022" :> ("min_commits" :> IntVal(4)))]]

\* The README's example configuration, as yaml.Unmarshal produces it.
ReadmeExample ==
  [ProtectedBranches |-> <<"main", "master", "develop", "staging", "production">>,
   Rules |-> [Disabled |-> <<"R007", "R055">>,
              Parameters |-> ("R020" :> ("max_commits" :> IntVal(5))) @@
                             ("R048" :> ("max_days" :> IntVal(21)))]]

\* A configuration with a mistyped parameter and a float parameter of value zero.
OddConfig ==
  [ProtectedBranches |-> <<"main">>,
   Rules |-> [Disabled |-> <<"R004", "R999">>,
              Parameters |-> ("R020" :> ("max_commits" :> StringVal("five"))) @@
                             ("R022" :> ("min_commits" :> FloatVal(0)))]]

Configs == {Defaults, ReadmeExample, OddConfig}

\* (c *Config) IsRuleDisabled(ruleID)
IsRuleDisabled(c, ruleID) ==
  \E k \in 1..Len(c.Rules.Disabled) : c.Rules.Disabled[k] = ruleID

\* GetIntParam with a conversion that rounds a float64 up
GetIntParamRoundUp(c, ruleID, param, defaultVal) ==
  IF ruleID \in DOMAIN c.Rules.Parameters /\ param \in DOMAIN c.Rules.Parameters[ruleID]
  THEN LET v == c.Rules.Parameters[ruleID][param]
       IN CASE v.type = "int" -> v.val
            [] v.type = "float64" -> 0 - ((0 - v.val) \div v.den)
            [] OTHER -> defaultVal
  ELSE defaultVal

\* (c *Config) GetIntParam(ruleID, param, defaultVal)
GetIntParam(c, ruleID, param, defaultVal) ==
  IF ruleID \in DOMAIN c.Rules.Parameters /\ param \in DOMAIN c.Rules.Parameters[ruleID]
  THEN LET v == c.Rules.Parameters[ruleID][param]
       IN CASE v.type = "int" -> v.val
            [] v.type = "float64" -> intOf(v)
            [] OTHER -> defaultVal
  ELSE defaultVal

\* c.Rules.Parameters[ruleID][param] = v, the inner map made if it is missing
SetIntParam(c, ruleID, param, v) ==
  LET old   == c.Rules.Parameters
      inner == IF ruleID \in DOMAIN old THEN old[ruleID] ELSE [x \in {} |-> IntVal(0)]
  IN [c EXCEPT !.Rules.Parameters = (ruleID :> ((param :> IntVal(v)) @@ inner)) @@ old]

\* what a configuration file can leave under rules.parameters.<rule>.<name>
NoRule == [type |-> "no entry for the rule", val |-> 0, den |-> 1]

NoParam == [type |-> "no entry for the parameter", val |-> 0, den |-> 1]

StoredValues ==
  {NoRule, NoParam, IntVal(1), IntVal(MaxCommitCount), FloatRatio(5, 2), FloatRatio(0 - 1, 2),
   FloatVal(2), StringVal("five"), BoolVal(TRUE)}

ParamEntry(ruleID, param, v) ==
  CASE v = NoRule -> <<>>
    [] v = NoParam -> (ruleID :> <<>>)
    [] OTHER -> (ruleID :> (param :> v))

\* a loaded configuration holding v20 for R020.max_commits and v22 for R022.min_commits
ParamConfig(v20, v22) ==
  [ProtectedBranches |-> <<"main", "master", "develop", "production">>,
   Rules |-> [Disabled |-> <<>>,
              Parameters |-> ParamEntry("R020", "max_commits", v20)
                               @@ ParamEntry("R022", "min_commits", v22)]]

ParamConfigs == {ParamConfig(v20, v22) : v20, v22 \in StoredValues} \cup {Defaults}

\* the snapshots that differ in the facts R020 and R022 read, with or without staged files
ParamSnapshots ==
  {RepoState(S, 1, c) :
     S \in SUBSET {"LastCommitPushed", "CommitCountSincePush", "StagedFiles"},
     c \in 1..MaxCommitCount}

\* the parameters the catalog's closures read
CatalogParams == {<<"R020", "max_commits">>, <<"R022", "min_commits">>}

(***************************************************************************)
(* Rule checks (internal/rules/*.go).  The legacy catalog's checks have    *)
(* the same bodies except R020 and R022.                                   *)
(***************************************************************************)
R037(s) == s.ForcePushToShared

R038(s) == s.RewrittenPublishedTags

\* a check that also asks for the protected-branch flag
R039OnProtected(s) == s.ResetOnProtectedBranch /\ s.OnProtectedBranch

R039(s) == s.ResetOnProtectedBranch

R040(s) == s.SubmoduleRewriteNoUpdate

R041(s) == s.AccidentalHistoryRewrite

R021(s) == s.LastCommitPushed

R009(s) == s.MergeInProgress

R010(s) == s.RebaseInProgress

R011(s) == s.CherryPickInProgress

R001(s) == s.OnDetachedHead

R032(s) == s.Ahead > 0 /\ s.Behind > 0 /\ s.OnProtectedBranch

R042(s) == s.ConflictedFilesStaged

R043(s) == s.LargeBinariesWithoutLFS

R044(s) == s.LineEndingConflict

R045(s) == s.SubmoduleDetachedHead

R046(s) == s.ShallowCloneHistoryOps

R006(s) == s.Ahead > 0 /\ s.Behind > 0

R034(s) == s.NoUpstream /\ ~s.OnDetachedHead

R031(s) == s.Ahead > 0 /\ s.Behind > 0 /\ ~s.OnProtectedBranch

R035(s) == Len(s.MergedBranches) > 0

R036(s) == Len(s.GoneBranches) > 0

R033(s) == s.HasMergeCommits /\ s.Behind > 0

R047(s) == s.WorkOnMainNotFeature

R048(s) == s.LongLivedFeatureBranch

R049(s) == s.SquashRecommended

R050(s) == s.WIPCommitOnShared

R051(s) == s.RebaseInsteadOfMerge

R005(s) == s.Behind > 0 /\ ~s.Dirty

R030(s) == s.Behind > 0 /\ s.Ahead = 0 /\ ~s.Dirty

R004(s) == s.Ahead > 0 /\ s.Behind = 0 /\ ~s.Dirty

R003(s) == s.StagedFiles > 0

R002(s) == s.ModifiedFiles > 0 /\ s.StagedFiles = 0

R052(s) == s.PoorCommitMessage

R053(s) == s.AmendLastCommitSuggested

R054(s) == s.UnpushedLocalTags

R007(s) == s.UntrackedFiles > 0

R055(s) == s.StashStackGrowing

R008(s) == s.HasStash

R056(s) == s.RepoSizeGrowingFast

R057(s) == Len(s.InactiveBranches) > 0

R058(s) == s.OnDetachedHeadClean

\* an R020 that does not look at LastCommitPushed
R020OfAnyCommit(s, c) ==
  s.CommitCountSincePush > 0 /\ s.CommitCountSincePush <= GetIntParam(c, "R020", "max_commits", 3)

\* R020 - Soft Reset Local Commits
R020(s, c) ==
  LET maxCommits == GetIntParam(c, "R020", "max_commits", 3)
  IN ~s.LastCommitPushed /\ s.CommitCountSincePush > 0 /\ s.CommitCountSincePush <= maxCommits

\* R022 - Too Many Commits to Reset
R022(s, c) ==
  LET minCommits == GetIntParam(c, "R022", "min_commits", 4)
  IN ~s.LastCommitPushed /\ s.CommitCountSincePush >= minCommits

\* R020 of the legacy catalog
LegacyR020(s) ==
  ~s.LastCommitPushed /\ s.CommitCountSincePush > 0 /\ s.CommitCountSincePush <= 3

\* a legacy R022 that starts one commit later
LegacyR022Above4(s) ==
  ~s.LastCommitPushed /\ s.CommitCountSincePush > 4

\* R022 of the legacy catalog
LegacyR022(s) ==
  ~s.LastCommitPushed /\ s.CommitCountSincePush > 3

\* ruleDef.Check(state): a plain function has no environment; the closures built by
\* WorkflowRules(cfg) hold the cfg pointer and read the Config object when they are called.
NoEnv == "none"

CfgPtr == "cfg"

Deref(env) == cfg

Check(ruleDef, s) ==
  LET chk == ruleDef.Check
  IN CASE chk.fn = "R020" -> R020(s, Deref(chk.env))
       [] chk.fn = "R022" -> R022(s, Deref(chk.env))
       [] chk.fn = "LegacyR020" -> LegacyR020(s)
       [] chk.fn = "LegacyR022" -> LegacyR022(s)
       [] chk.fn = "R037" -> R037(s)
       [] chk.fn = "R038" -> R038(s)
       [] chk.fn = "R039" -> R039(s)
       [] chk.fn = "R040" -> R040(s)
       [] chk.fn = "R041" -> R041(s)
       [] chk.fn = "R021" -> R021(s)
       [] chk.fn = "R009" -> R009(s)
       [] chk.fn = "R010" -> R010(s)
       [] chk.fn = "R011" -> R011(s)
       [] chk.fn = "R001" -> R001(s)
       [] chk.fn = "R032" -> R032(s)
       [] chk.fn = "R042" -> R042(s)
       [] chk.fn = "R043" -> R043(s)
       [] chk.fn = "R044" -> R044(s)
       [] chk.fn = "R045" -> R045(s)
       [] chk.fn = "R046" -> R046(s)
       [] chk.fn = "R006" -> R006(s)
       [] chk.fn = "R034" -> R034(s)
       [] chk.fn = "R031" -> R031(s)
       [] chk.fn = "R035" -> R035(s)
       [] chk.fn = "R036" -> R036(s)
       [] chk.fn = "R033" -> R033(s)
       [] chk.fn = "R047" -> R047(s)
       [] chk.fn = "R048" -> R048(s)
       [] chk.fn = "R049" -> R049(s)
       [] chk.fn = "R050" -> R050(s)
       [] chk.fn = "R051" -> R051(s)
       [] chk.fn = "R005" -> R005(s)
       [] chk.fn = "R030" -> R030(s)
       [] chk.fn = "R004" -> R004(s)
       [] chk.fn = "R003" -> R003(s)
       [] chk.fn = "R002" -> R002(s)
       [] chk.fn = "R052" -> R052(s)
       [] chk.fn = "R053" -> R053(s)
       [] chk.fn = "R054" -> R054(s)
       [] chk.fn = "R007" -> R007(s)
       [] chk.fn = "R055" -> R055(s)
       [] chk.fn = "R008" -> R008(s)
       [] chk.fn = "R056" -> R056(s)
       [] chk.fn = "R057" -> R057(s)
       [] chk.fn = "R058" -> R058(s)

(***************************************************************************)
(* The rule catalogs                                                       *)
(***************************************************************************)
DangerousRules(cfgRef) ==
  <<
    [ID |-> "R037", Check |-> [fn |-> "R037", env |-> NoEnv],
     Command |-> <<"#", "DO", "NOT", "git", "push", "--force", "on", "shared", "branches!">>,
     Description |-> "Force-push to shared branch - this is how trust dies",
     Priority |-> 100],
    [ID |-> "R038", Check |-> [fn |-> "R038", env |-> NoEnv],
     Command |-> <<"#", "DO", "NOT", "rewrite", "published", "tags!">>,
     Description |-> "Rewrite published tags - releases are now folklore",
     Priority |-> 100],
    [ID |-> "R039", Check |-> [fn |-> "R039", env |-> NoEnv],
     Command |-> <<"#", "DO", "NOT", "reset", "on", "protected", "branches!">>,
     Description |-> "Reset on protected branch - muscle memory is not a justification",
     Priority |-> 100],
    [ID |-> "R040", Check |-> [fn |-> "R040", env |-> NoEnv],
     Command |-> <<"git", "submodule", "update", "--remote">>,
     Description |-> "Submodule pointer rewrite without update - builds will fail creatively",
     Priority |-> 100],
    [ID |-> "R041", Check |-> [fn |-> "R041", env |-> NoEnv],
     Command |-> <<"#", "Accidental", "history", "rewrite", "detected", "-", "you", "don't", "get", "to", "pretend", "this", "was", "fine">>,
     Description |-> "Rebase or filter-branch after commits pulled by others",
     Priority |-> 100],
    [ID |-> "R021", Check |-> [fn |-> "R021", env |-> NoEnv],
     Command |-> <<"git", "revert", "HEAD">>,
     Description |-> "Last commit was pushed - use revert instead of reset",
     Priority |-> 100],
    [ID |-> "R009", Check |-> [fn |-> "R009", env |-> NoEnv],
     Command |-> <<"git", "merge", "--continue", "OR", "git", "merge", "--abort">>,
     Description |-> "Merge in progress - complete or abort",
     Priority |-> 98],
    [ID |-> "R010", Check |-> [fn |-> "R010", env |-> NoEnv],
     Command |-> <<"git", "rebase", "--continue", "OR", "git", "rebase", "--abort">>,
     Description |-> "Rebase in progress - complete or abort",
     Priority |-> 97],
    [ID |-> "R011", Check |-> [fn |-> "R011", env |-> NoEnv],
     Command |-> <<"git", "cherry-pick", "--continue", "OR", "git", "cherry-pick", "--abort">>,
     Description |-> "Cherry-pick in progress - complete or abort",
     Priority |-> 96],
    [ID |-> "R001", Check |-> [fn |-> "R001", env |-> NoEnv],
     Command |-> <<"git", "checkout", "<branch>">>,
     Description |-> "Detached HEAD detected - checkout a branch",
     Priority |-> 95],
    [ID |-> "R032", Check |-> [fn |-> "R032", env |-> NoEnv],
     Command |-> <<"git", "merge", "origin/<branch>">>,
     Description |-> "Diverged on protected branch - merge instead of rebase",
     Priority |-> 90]
  >>

IntegrityRules ==
  <<
    [ID |-> "R042", Check |-> [fn |-> "R042", env |-> NoEnv],
     Command |-> <<"#", "Remove", "conflict", "markers", "from", "files", "before", "committing">>,
     Description |-> "Conflicted files staged - if <<<<<<< is in the diff, stop pretending",
     Priority |-> 89],
    [ID |-> "R043", Check |-> [fn |-> "R043", env |-> NoEnv],
     Command |-> <<"git", "lfs", "track", "<pattern>", "&&", "git", "add", ".gitattributes">>,
     Description |-> "Binary files changed without LFS - Git is not a landfill",
     Priority |-> 85],
    [ID |-> "R044", Check |-> [fn |-> "R044", env |-> NoEnv],
     Command |-> <<"git", "config", "core.autocrlf", "true", "(or", "false)">>,
     Description |-> "Line ending normalization conflict - someone's editor declared war",
     Priority |-> 82],
    [ID |-> "R045", Check |-> [fn |-> "R045", env |-> NoEnv],
     Command |-> <<"cd", "<submodule>", "&&", "git", "checkout", "<branch>">>,
     Description |-> "Submodule detached HEAD - time capsule mode engaged",
     Priority |-> 81],
    [ID |-> "R046", Check |-> [fn |-> "R046", env |-> NoEnv],
     Command |-> <<"git", "fetch", "--unshallow">>,
     Description |-> "Shallow clone doing history ops - Git will lie to you politely",
     Priority |-> 80],
    [ID |-> "R006", Check |-> [fn |-> "R006", env |-> NoEnv],
     Command |-> <<"git", "rebase", "origin/<branch>", "OR", "git", "merge", "origin/<branch>">>,
     Description |-> "Branch has diverged - need to sync",
     Priority |-> 80],
    [ID |-> "R034", Check |-> [fn |-> "R034", env |-> NoEnv],
     Command |-> <<"git", "branch", "--set-upstream-to=origin/<branch>">>,
     Description |-> "No upstream configured for current branch",
     Priority |-> 75],
    [ID |-> "R031", Check |-> [fn |-> "R031", env |-> NoEnv],
     Command |-> <<"git", "rebase", "origin/<branch>">>,
     Description |-> "Feature branch diverged - rebase to keep linear history",
     Priority |-> 70],
    [ID |-> "R035", Check |-> [fn |-> "R035", env |-> NoEnv],
     Command |-> <<"git", "branch", "-d", "<branch>">>,
     Description |-> "Merged branches ready for cleanup",
     Priority |-> 65],
    [ID |-> "R036", Check |-> [fn |-> "R036", env |-> NoEnv],
     Command |-> <<"git", "branch", "-d", "<branch>">>,
     Description |-> "Gone remote branches - local cleanup needed",
     Priority |-> 62],
    [ID |-> "R033", Check |-> [fn |-> "R033", env |-> NoEnv],
     Command |-> <<"git", "merge", "origin/<branch>">>,
     Description |-> "Existing merge commits detected - continue with merge",
     Priority |-> 60]
  >>

WorkflowRules(cfgRef) ==
  <<
    [ID |-> "R047", Check |-> [fn |-> "R047", env |-> NoEnv],
     Command |-> <<"git", "checkout", "-b", "feature/<name>">>,
     Description |-> "Work on main instead of feature branch - you skipped the whole process part",
     Priority |-> 58],
    [ID |-> "R048", Check |-> [fn |-> "R048", env |-> NoEnv],
     Command |-> <<"git", "merge", "main", "(or", "rebase)">>,
     Description |-> "Long-lived feature branch - merge debt accumulating interest",
     Priority |-> 56],
    [ID |-> "R005", Check |-> [fn |-> "R005", env |-> NoEnv],
     Command |-> <<"git", "pull">>,
     Description |-> "Behind remote and clean - pull updates",
     Priority |-> 55],
    [ID |-> "R049", Check |-> [fn |-> "R049", env |-> NoEnv],
     Command |-> <<"git", "rebase", "-i", "HEAD~N">>,
     Description |-> "Squash recommended before merge - many noisy commits",
     Priority |-> 52],
    [ID |-> "R050", Check |-> [fn |-> "R050", env |-> NoEnv],
     Command |-> <<"git", "commit", "--amend">>,
     Description |-> "WIP commit on shared branch - this is not your personal notebook",
     Priority |-> 51],
    [ID |-> "R051", Check |-> [fn |-> "R051", env |-> NoEnv],
     Command |-> <<"git", "rebase", "main">>,
     Description |-> "Rebase recommended instead of merge - keep linear history",
     Priority |-> 50],
    [ID |-> "R004", Check |-> [fn |-> "R004", env |-> NoEnv],
     Command |-> <<"git", "push">>,
     Description |-> "Local commits ready to push",
     Priority |-> 50],
    [ID |-> "R030", Check |-> [fn |-> "R030", env |-> NoEnv],
     Command |-> <<"git", "pull", "--ff-only">>,
     Description |-> "Can fast-forward - safe to pull",
     Priority |-> 48],
    [ID |-> "R020", Check |-> [fn |-> "R020", env |-> cfgRef],
     Command |-> <<"git", "reset", "--soft", "HEAD~N">>,
     Description |-> "Local commits (<=3) can be soft reset",
     Priority |-> 45],
    [ID |-> "R022", Check |-> [fn |-> "R022", env |-> cfgRef],
     Command |-> <<"git", "rebase", "-i", "HEAD~N">>,
     Description |-> "Too many local commits - use interactive rebase",
     Priority |-> 42],
    [ID |-> "R003", Check |-> [fn |-> "R003", env |-> NoEnv],
     Command |-> <<"git", "commit">>,
     Description |-> "Staged files waiting for commit",
     Priority |-> 38],
    [ID |-> "R002", Check |-> [fn |-> "R002", env |-> NoEnv],
     Command |-> <<"git", "add", "<files>", "&&", "git", "commit">>,
     Description |-> "Modified files not staged",
     Priority |-> 35]
  >>

SuggestionRules ==
  <<
    [ID |-> "R052", Check |-> [fn |-> "R052", env |-> NoEnv],
     Command |-> <<"git", "commit", "--amend">>,
     Description |-> "Commit message quality warning - Git logs are for humans, allegedly",
     Priority |-> 25],
    [ID |-> "R053", Check |-> [fn |-> "R053", env |-> NoEnv],
     Command |-> <<"git", "commit", "--amend">>,
     Description |-> "Amend last commit suggested - you knew this already",
     Priority |-> 23],
    [ID |-> "R054", Check |-> [fn |-> "R054", env |-> NoEnv],
     Command |-> <<"git", "push", "--tags">>,
     Description |-> "Unpushed local tags - Schrodinger's release",
     Priority |-> 21],
    [ID |-> "R007", Check |-> [fn |-> "R007", env |-> NoEnv],
     Command |-> <<"git", "add", "<files>">>,
     Description |-> "Untracked files present",
     Priority |-> 20],
    [ID |-> "R055", Check |-> [fn |-> "R055", env |-> NoEnv],
     Command |-> <<"git", "stash", "pop", "OR", "git", "stash", "clear">>,
     Description |-> "Stash stack growing - you're hoarding unfinished thoughts",
     Priority |-> 18],
    [ID |-> "R008", Check |-> [fn |-> "R008", env |-> NoEnv],
     Command |-> <<"git", "stash", "pop">>,
     Description |-> "Stash exists - consider applying",
     Priority |-> 15]
  >>

\* an informational tier whose first rule has priority 10
InformationalRulesRaised ==
  <<
    [ID |-> "R056", Check |-> [fn |-> "R056", env |-> NoEnv],
     Command |-> <<"git", "gc", "--aggressive">>,
     Description |-> "Repo size growing unusually fast - just so you're aware",
     Priority |-> 10],
    [ID |-> "R057", Check |-> [fn |-> "R057", env |-> NoEnv],
     Command |-> <<"git", "branch", "-d", "<branch>">>,
     Description |-> "Inactive branches detected - archaeology opportunity",
     Priority |-> 8],
    [ID |-> "R058", Check |-> [fn |-> "R058", env |-> NoEnv],
     Command |-> <<"git", "checkout", "<branch>">>,
     Description |-> "Detached HEAD but clean - nothing wrong, just vibes",
     Priority |-> 5]
  >>

InformationalRules ==
  <<
    [ID |-> "R056", Check |-> [fn |-> "R056", env |-> NoEnv],
     Command |-> <<"git", "gc", "--aggressive">>,
     Description |-> "Repo size growing unusually fast - just so you're aware",
     Priority |-> 9],
    [ID |-> "R057", Check |-> [fn |-> "R057", env |-> NoEnv],
     Command |-> <<"git", "branch", "-d", "<branch>">>,
     Description |-> "Inactive branches detected - archaeology opportunity",
     Priority |-> 8],
    [ID |-> "R058", Check |-> [fn |-> "R058", env |-> NoEnv],
     Command |-> <<"git", "checkout", "<branch>">>,
     Description |-> "Detached HEAD but clean - nothing wrong, just vibes",
     Priority |-> 5]
  >>

LegacyAllRules ==
  <<
    [ID |-> "R021", Check |-> [fn |-> "R021", env |-> NoEnv],
     Command |-> <<"git", "revert", "HEAD">>,
     Description |-> "Last commit was pushed - use revert instead of reset",
     Priority |-> 100],
    [ID |-> "R009", Check |-> [fn |-> "R009", env |-> NoEnv],
     Command |-> <<"git", "merge", "--continue", "OR", "git", "merge", "--abort">>,
     Description |-> "Merge in progress - complete or abort",
     Priority |-> 98],
    [ID |-> "R010", Check |-> [fn |-> "R010", env |-> NoEnv],
     Command |-> <<"git", "rebase", "--continue", "OR", "git", "rebase", "--abort">>,
     Description |-> "Rebase in progress - complete or abort",
     Priority |-> 97],
    [ID |-> "R011", Check |-> [fn |-> "R011", env |-> NoEnv],
     Command |-> <<"git", "cherry-pick", "--continue", "OR", "git", "cherry-pick", "--abort">>,
     Description |-> "Cherry-pick in progress - complete or abort",
     Priority |-> 96],
    [ID |-> "R001", Check |-> [fn |-> "R001", env |-> NoEnv],
     Command |-> <<"git", "checkout", "<branch>">>,
     Description |-> "Detached HEAD detected - checkout a branch",
     Priority |-> 95],
    [ID |-> "R032", Check |-> [fn |-> "R032", env |-> NoEnv],
     Command |-> <<"git", "merge", "origin/<branch>">>,
     Description |-> "Diverged on protected branch - merge instead of rebase",
     Priority |-> 90],
    [ID |-> "R006", Check |-> [fn |-> "R006", env |-> NoEnv],
     Command |-> <<"git", "rebase", "origin/<branch>", "OR", "git", "merge", "origin/<branch>">>,
     Description |-> "Branch has diverged - need to sync",
     Priority |-> 80],
    [ID |-> "R034", Check |-> [fn |-> "R034", env |-> NoEnv],
     Command |-> <<"git", "branch", "--set-upstream-to=origin/<branch>">>,
     Description |-> "No upstream configured for current branch",
     Priority |-> 75],
    [ID |-> "R031", Check |-> [fn |-> "R031", env |-> NoEnv],
     Command |-> <<"git", "rebase", "origin/<branch>">>,
     Description |-> "Feature branch diverged - rebase to keep linear history",
     Priority |-> 70],
    [ID |-> "R035", Check |-> [fn |-> "R035", env |-> NoEnv],
     Command |-> <<"git", "branch", "-d", "<branch>">>,
     Description |-> "Merged branches ready for cleanup",
     Priority |-> 65],
    [ID |-> "R036", Check |-> [fn |-> "R036", env |-> NoEnv],
     Command |-> <<"git", "branch", "-d", "<branch>">>,
     Description |-> "Gone remote branches - local cleanup needed",
     Priority |-> 62],
    [ID |-> "R033", Check |-> [fn |-> "R033", env |-> NoEnv],
     Command |-> <<"git", "merge", "origin/<branch>">>,
     Description |-> "Existing merge commits detected - continue with merge",
     Priority |-> 60],
    [ID |-> "R005", Check |-> [fn |-> "R005", env |-> NoEnv],
     Command |-> <<"git", "pull">>,
     Description |-> "Behind remote and clean - pull updates",
     Priority |-> 55],
    [ID |-> "R004", Check |-> [fn |-> "R004", env |-> NoEnv],
     Command |-> <<"git", "push">>,
     Description |-> "Local commits ready to push",
     Priority |-> 50],
    [ID |-> "R030", Check |-> [fn |-> "R030", env |-> NoEnv],
     Command |-> <<"git", "pull", "--ff-only">>,
     Description |-> "Can fast-forward - safe to pull",
     Priority |-> 48],
    [ID |-> "R020", Check |-> [fn |-> "LegacyR020", env |-> NoEnv],
     Command |-> <<"git", "reset", "--soft", "HEAD~N">>,
     Description |-> "Local commits (<=3) can be soft reset",
     Priority |-> 45],
    [ID |-> "R022", Check |-> [fn |-> "LegacyR022", env |-> NoEnv],
     Command |-> <<"git", "rebase", "-i", "HEAD~N">>,
     Description |-> "Too many local commits - use interactive rebase",
     Priority |-> 42],
    [ID |-> "R003", Check |-> [fn |-> "R003", env |-> NoEnv],
     Command |-> <<"git", "commit">>,
     Description |-> "Staged files waiting for commit",
     Priority |-> 38],
    [ID |-> "R002", Check |-> [fn |-> "R002", env |-> NoEnv],
     Command |-> <<"git", "add", "<files>", "&&", "git", "commit">>,
     Description |-> "Modified files not staged",
     Priority |-> 35],
    [ID |-> "R007", Check |-> [fn |-> "R007", env |-> NoEnv],
     Command |-> <<"git", "add", "<files>">>,
     Description |-> "Untracked files present",
     Priority |-> 20],
    [ID |-> "R008", Check |-> [fn |-> "R008", env |-> NoEnv],
     Command |-> <<"git", "stash", "pop">>,
     Description |-> "Stash exists - consider applying",
     Priority |-> 15]
  >>

\* a catalog that lists the informational tier before the suggestion tier
AllRulesInformationalFirst(cfgRef) ==
  DangerousRules(cfgRef) \o IntegrityRules \o WorkflowRules(cfgRef)
    \o InformationalRules \o SuggestionRules

\* AllRules(cfg) of internal/rules/rules.go
AllRules(cfgRef) ==
  DangerousRules(cfgRef) \o IntegrityRules \o WorkflowRules(cfgRef)
    \o SuggestionRules \o InformationalRules

\* rules.AllRules as the engine is linked
LinkedRules == IF catalog = "modular" THEN AllRules(CfgPtr) ELSE LegacyAllRules

(***************************************************************************)
(* engine: the suppression table and extractCommand                        *)
(***************************************************************************)
\* the active-operation list with "push" left out
ActiveOperationTargetsNoPush ==
  <<<<"merge">>, <<"rebase">>, <<"reset">>, <<"commit">>, <<"pull">>, <<"checkout">>>>

ActiveOperationTargets ==
  <<<<"merge">>, <<"rebase">>, <<"reset">>, <<"commit">>, <<"pull">>, <<"push">>, <<"checkout">>>>

\* the table with "rebase" suppressing "push" in place of "pull"
SuppressesRebasePush ==
  [k \in {<<"merge", "--continue">>, <<"merge", "--abort">>,
          <<"rebase", "--continue">>, <<"rebase", "--abort">>,
          <<"cherry-pick", "--continue">>, <<"cherry-pick", "--abort">>,
          <<"revert">>, <<"merge">>, <<"rebase">>, <<"reset">>} |->
     CASE k = <<"revert">> -> <<<<"reset">>>>
       [] k = <<"merge">>  -> <<<<"rebase">>>>
       [] k = <<"rebase">> -> <<<<"push">>>>
       [] k = <<"reset">>  -> <<<<"commit">>>>
       [] OTHER            -> <<<<"merge">>, <<"rebase">>, <<"reset">>, <<"commit">>,
                                <<"pull">>, <<"push">>, <<"checkout">>>>]

\* the table with a "pull" entry that suppresses "pull"
SuppressesPullPull ==
  [k \in {<<"merge", "--continue">>, <<"merge", "--abort">>,
          <<"rebase", "--continue">>, <<"rebase", "--abort">>,
          <<"cherry-pick", "--continue">>, <<"cherry-pick", "--abort">>,
          <<"revert">>, <<"merge">>, <<"rebase">>, <<"reset">>, <<"pull">>} |->
     CASE k = <<"revert">> -> <<<<"reset">>>>
       [] k = <<"merge">>  -> <<<<"rebase">>>>
       [] k = <<"rebase">> -> <<<<"pull">>>>
       [] k = <<"reset">>  -> <<<<"commit">>>>
       [] k = <<"pull">>   -> <<<<"pull">>>>
       [] OTHER            -> <<<<"merge">>, <<"rebase">>, <<"reset">>, <<"commit">>,
                                <<"pull">>, <<"push">>, <<"checkout">>>>]

\* the table with a "fetch" entry that suppresses "rebase"
SuppressesFetchRebase ==
  [k \in {<<"merge", "--continue">>, <<"merge", "--abort">>,
          <<"rebase", "--continue">>, <<"rebase", "--abort">>,
          <<"cherry-pick", "--continue">>, <<"cherry-pick", "--abort">>,
          <<"revert">>, <<"merge">>, <<"rebase">>, <<"reset">>, <<"fetch">>} |->
     CASE k = <<"revert">> -> <<<<"reset">>>>
       [] k = <<"merge">>  -> <<<<"rebase">>>>
       [] k = <<"rebase">> -> <<<<"pull">>>>
       [] k = <<"reset">>  -> <<<<"commit">>>>
       [] k = <<"fetch">>  -> <<<<"rebase">>>>
       [] OTHER            -> <<<<"merge">>, <<"rebase">>, <<"reset">>, <<"commit">>,
                                <<"pull">>, <<"push">>, <<"checkout">>>>]

\* var Suppresses = map[string][]string{...}
Suppresses ==
  [k \in {<<"merge", "--continue">>, <<"merge", "--abort">>,
          <<"rebase", "--continue">>, <<"rebase", "--abort">>,
          <<"cherry-pick", "--continue">>, <<"cherry-pick", "--abort">>,
          <<"revert">>, <<"merge">>, <<"rebase">>, <<"reset">>} |->
     CASE k = <<"revert">> -> <<<<"reset">>>>
       [] k = <<"merge">>  -> <<<<"rebase">>>>
       [] k = <<"rebase">> -> <<<<"pull">>>>
       [] k = <<"reset">>  -> <<<<"commit">>>>
       [] OTHER            -> ActiveOperationTargets]

SetMax(S) == CHOOSE x \in S : \A y \in S : y <= x

SetMin(S) == CHOOSE x \in S : \A y \in S : x <= y

\* strings.Split(cmd, "&&"), last part, trimmed
LastAndPart(cmd) ==
  LET at == {k \in 1..Len(cmd) : cmd[k] = "&&"}
  IN IF at = {} THEN cmd ELSE SubSeq(cmd, SetMax(at) + 1, Len(cmd))

\* strings.Split(cmd, " OR "), first part, trimmed: " OR " is an OR token with a
\* token on either side
FirstOrPart(cmd) ==
  LET at == {k \in 2..(Len(cmd) - 1) : cmd[k] = "OR"}
  IN IF at = {} THEN cmd ELSE SubSeq(cmd, 1, SetMin(at) - 1)

\* a key taken from the first segment of an "&&" chain
extractCommandOfFirstSegment(cmd) ==
  LET at    == {k \in 1..Len(cmd) : cmd[k] = "&&"}
      parts == FirstOrPart(IF at = {} THEN cmd ELSE SubSeq(cmd, 1, SetMin(at) - 1))
  IN IF Len(parts) >= 2 /\ parts[1] = "git"
     THEN IF Len(parts) >= 3 /\ parts[3] \in {"--continue", "--abort"}
          THEN <<parts[2], parts[3]>>
          ELSE <<parts[2]>>
     ELSE <<>>

\* a key that leaves out the --continue / --abort flag
extractCommandWithoutFlag(cmd) ==
  LET parts == FirstOrPart(LastAndPart(cmd))
  IN IF Len(parts) >= 2 /\ parts[1] = "git" THEN <<parts[2]>> ELSE <<>>

\* a key taken from the second word whatever the first word is
extractCommandOfAnyProgram(cmd) ==
  LET parts == FirstOrPart(LastAndPart(cmd))
  IN IF Len(parts) >= 2
     THEN IF Len(parts) >= 3 /\ parts[3] \in {"--continue", "--abort"}
          THEN <<parts[2], parts[3]>>
          ELSE <<parts[2]>>
     ELSE <<>>

\* extractCommand(cmd)
extractCommand(cmd) ==
  LET parts == FirstOrPart(LastAndPart(cmd))
  IN IF Len(parts) >= 2 /\ parts[1] = "git"
     THEN IF Len(parts) >= 3 /\ parts[3] \in {"--continue", "--abort"}
          THEN <<parts[2], parts[3]>>
          ELSE <<parts[2]>>
     ELSE <<>>

(***************************************************************************)
(* model.ByPriority and sort.Sort.  Indices are 0-based as in the code.    *)
(***************************************************************************)
\* ByPriority.Less
Less(data, i, j) == data[i + 1].Priority > data[j + 1].Priority

\* ByPriority.Swap
Swap(data, i, j) == [data EXCEPT ![i + 1] = data[j + 1], ![j + 1] = data[i + 1]]

RECURSIVE insertionDown(_, _, _)
insertionDown(data, a, j) ==
  IF j > a /\ Less(data, j, j - 1)
  THEN insertionDown(Swap(data, j, j - 1), a, j - 1)
  ELSE data

RECURSIVE insertionFrom(_, _, _, _)
insertionFrom(data, a, b, i) ==
  IF i < b THEN insertionFrom(insertionDown(data, a, i), a, b, i + 1) ELSE data

\* insertionSort sorts data[a:b]
insertionSort(data, a, b) == insertionFrom(data, a, b, a + 1)

RECURSIVE siftDown(_, _, _, _)
siftDown(data, lo, hi, first) ==
  LET child0 == 2 * lo + 1
      child  == IF child0 + 1 < hi /\ Less(data, first + child0, first + child0 + 1)
                THEN child0 + 1 ELSE child0
  IN IF child0 >= hi THEN data
     ELSE IF ~Less(data, first + lo, first + child) THEN data
     ELSE siftDown(Swap(data, first + lo, first + child), child, hi, first)

RECURSIVE heapBuild(_, _, _, _)
heapBuild(data, i, hi, first) ==
  IF i >= 0 THEN heapBuild(siftDown(data, i, hi, first), i - 1, hi, first) ELSE data

RECURSIVE heapPop(_, _, _)
heapPop(data, i, first) ==
  IF i >= 0 THEN heapPop(siftDown(Swap(data, first, first + i), 0, i, first), i - 1, first)
  ELSE data

heapSort(data, a, b) ==
  LET hi == b - a
  IN heapPop(heapBuild(data, (hi - 1) \div 2, hi, a), hi - 1, a)

\* medianOfThree moves the median of data[m0], data[m1], data[m2] into data[m1]
medianOfThree(data, m1, m0, m2) ==
  LET d1 == IF Less(data, m1, m0) THEN Swap(data, m1, m0) ELSE data
  IN IF Less(d1, m2, m1)
     THEN LET d2 == Swap(d1, m2, m1)
          IN IF Less(d2, m1, m0) THEN Swap(d2, m1, m0) ELSE d2
     ELSE d1

RECURSIVE skipLess(_, _, _, _)
\* for ; a < c && data.Less(a, pivot); a++ {}
skipLess(data, a, c, pivot) ==
  IF a < c /\ Less(data, a, pivot) THEN skipLess(data, a + 1, c, pivot) ELSE a

RECURSIVE skipNotGreater(_, _, _, _)
\* for ; b < c && !data.Less(pivot, b); b++ {}
skipNotGreater(data, b, c, pivot) ==
  IF b < c /\ ~Less(data, pivot, b) THEN skipNotGreater(data, b + 1, c, pivot) ELSE b

RECURSIVE skipGreater(_, _, _, _)
\* for ; b < c && data.Less(pivot, c-1); c-- {}
skipGreater(data, b, c, pivot) ==
  IF b < c /\ Less(data, pivot, c - 1) THEN skipGreater(data, b, c - 1, pivot) ELSE c

RECURSIVE partitionLoop(_, _, _, _)
partitionLoop(data, b, c, pivot) ==
  LET b1 == skipNotGreater(data, b, c, pivot)
      c1 == skipGreater(data, b1, c, pivot)
  IN IF b1 >= c1 THEN [data |-> data, b |-> b1, c |-> c1]
     ELSE partitionLoop(Swap(data, b1, c1 - 1), b1 + 1, c1 - 1, pivot)

RECURSIVE skipEqualDown(_, _, _, _)
\* for ; a < b && !data.Less(b-1, pivot); b-- {}
skipEqualDown(data, a, b, pivot) ==
  IF a < b /\ ~Less(data, b - 1, pivot) THEN skipEqualDown(data, a, b - 1, pivot) ELSE b

RECURSIVE protectLoop(_, _, _, _)
protectLoop(data, a, b, pivot) ==
  LET b1 == skipEqualDown(data, a, b, pivot)
      a1 == skipLess(data, a, b1, pivot)
  IN IF a1 >= b1 THEN [data |-> data, b |-> b1]
     ELSE protectLoop(Swap(data, a1, b1 - 1), a1 + 1, b1 - 1, pivot)

\* doPivot, end: swap(pivot, b-1); return b-1, c
pivotPlace(q, lo, c) == [data |-> Swap(q.data, lo, q.b - 1), mlo |-> q.b - 1, mhi |-> c]

\* doPivot: if protect { for {...} }
pivotFinish(data, a, b, c, lo, protect) ==
  IF protect THEN pivotPlace(protectLoop(data, a, b, lo), lo, c)
  ELSE pivotPlace([data |-> data, b |-> b], lo, c)

\* doPivot: if !less(m, pivot) { swap(m, b-1); b--; dups++ }; protect = dups > 1
dupMid(data, a, b, c, lo, hi, dups) ==
  IF ~Less(data, (lo + hi) \div 2, lo)
  THEN pivotFinish(Swap(data, (lo + hi) \div 2, b - 1), a, b - 1, c, lo, dups + 1 > 1)
  ELSE pivotFinish(data, a, b, c, lo, dups > 1)

\* doPivot: if !less(b-1, pivot) { b--; dups++ }
dupLow(data, a, b, c, lo, hi, dups) ==
  IF ~Less(data, b - 1, lo)
  THEN dupMid(data, a, b - 1, c, lo, hi, dups + 1)
  ELSE dupMid(data, a, b, c, lo, hi, dups)

\* doPivot: if !less(pivot, hi-1) { swap(c, hi-1); c++; dups++ }
dupHigh(data, a, b, c, lo, hi) ==
  IF ~Less(data, lo, hi - 1)
  THEN dupLow(Swap(data, c, hi - 1), a, b, c + 1, lo, hi, 1)
  ELSE dupLow(data, a, b, c, lo, hi, 0)

\* doPivot: protect := hi-c < 5; if !protect && hi-c < (hi-lo)/4 {...}
pivotGuard(p, a, lo, hi) ==
  IF ~(hi - p.c < 5) /\ hi - p.c < (hi - lo) \div 4
  THEN dupHigh(p.data, a, p.b, p.c, lo, hi)
  ELSE pivotFinish(p.data, a, p.b, p.c, lo, hi - p.c < 5)

\* doPivot: the partition loop from b := a
pivotPartition(data, a, lo, hi) == pivotGuard(partitionLoop(data, a, hi - 1, lo), a, lo, hi)

\* doPivot: the median (of three, or of nine above 40 elements) moved to data[lo]
pivotMedian(data, lo, hi, m, s) ==
  medianOfThree(
    IF hi - lo > 40
    THEN medianOfThree(
           medianOfThree(medianOfThree(data, lo, lo + s, lo + 2 * s), m, m - s, m + s),
           hi - 1, hi - 1 - s, hi - 1 - 2 * s)
    ELSE data,
    lo, m, hi - 1)

\* doPivot: for ; a < c && data.Less(a, pivot); a++ {}
pivotSkip(data, lo, hi) == pivotPartition(data, skipLess(data, lo + 1, hi - 1, lo), lo, hi)

\* doPivot of the quicksort of Go <= 1.18
doPivot(data, lo, hi) ==
  pivotSkip(pivotMedian(data, lo, hi, (lo + hi) \div 2, (hi - lo) \div 8), lo, hi)

RECURSIVE shellPass(_, _, _)
\* the ShellSort pass with gap 6
shellPass(data, b, i) ==
  IF i < b
  THEN shellPass(IF Less(data, i, i - 6) THEN Swap(data, i, i - 6) ELSE data, b, i + 1)
  ELSE data

RECURSIVE quickSort(_, _, _, _)
\* quickSort after doPivot: the smaller side by recursion, the other by the loop
quickSortSides(p, a, b, depth) ==
  IF p.mlo - a < b - p.mhi
  THEN quickSort(quickSort(p.data, a, p.mlo, depth - 1), p.mhi, b, depth - 1)
  ELSE quickSort(quickSort(p.data, p.mhi, b, depth - 1), a, p.mlo, depth - 1)

\* quickSort of Go <= 1.18
quickSort(data, a, b, depth) ==
  IF b - a > 12
  THEN IF depth = 0 THEN heapSort(data, a, b)
       ELSE quickSortSides(doPivot(data, a, b), a, b, depth)
  ELSE IF b - a > 1 THEN insertionSort(shellPass(data, b, a + 6), a, b)
  ELSE data

RECURSIVE bitLen(_)
bitLen(n) == IF n > 0 THEN 1 + bitLen(n \div 2) ELSE 0

maxDepth(n) == 2 * bitLen(n)

\* is data[a:b] free of an adjacent out-of-order pair (partialInsertionSort's scan)
InOrder(data, a, b) == \A i \in (a + 1)..(b - 1) : ~Less(data, i, i - 1)

RECURSIVE Orderings(_)
\* every sequence that lists the elements of the set S once
Orderings(S) ==
  IF S = {} THEN {<<>>}
  ELSE UNION {{<<x>> \o rest : rest \in Orderings(S \ {x})} : x \in S}

RECURSIVE OrderedPermutations(_)
\* every permutation of data that is ordered by Less: what the contract of sort.Sort allows
OrderedPermutations(data) ==
  IF data = <<>> THEN {<<>>}
  ELSE LET top   == SetMax({data[k].Priority : k \in 1..Len(data)})
           first == {data[k] : k \in {k \in 1..Len(data) : data[k].Priority = top}}
           rest  == SelectSeq(data, LAMBDA x : x.Priority < top)
       IN {h \o t : h \in Orderings(first), t \in OrderedPermutations(rest)}

\* a sort that leaves the list in ascending order of priority
SortOutcomesAscending(impl, data) ==
  LET n == Len(data)
      s == insertionSort(data, 0, n)
  IN {[k \in 1..n |-> s[n + 1 - k]]}

\* a sort whose order of ties is not fixed by its input: either implementation may answer
SortOutcomesTieRace(impl, data) ==
  LET n == Len(data)
  IN {quickSort(data, 0, n, maxDepth(n)), insertionSort(data, 0, n)}

\* sort.Sort(data) as the toolchain implements it: the results the call can give.
\*   quickSort: Go <= 1.18, quickSort(data, 0, n, maxDepth(n)).
\*   pdqsort:   Go >= 1.19, insertion sort up to 12 elements; above that an input already
\*              in order is returned untouched (choosePivot reports increasingHint and
\*              partialInsertionSort finds nothing to move); any other input goes through
\*              pattern-defeating partitioning, of which only the contract is kept.
SortOutcomes(impl, data) ==
  LET n == Len(data)
  IN IF impl = "quickSort" THEN {quickSort(data, 0, n, maxDepth(n))}
     ELSE IF n <= 12 THEN {insertionSort(data, 0, n)}
     ELSE IF InOrder(data, 0, n) THEN {data}
     ELSE OrderedPermutations(data)

(***************************************************************************)
(* engine.Evaluate and applySuppression                                    *)
(***************************************************************************)
\* an advice created with a placeholder reason
NewAdviceWithReason(ruleDef) ==
  [RuleID |-> ruleDef.ID, Command |-> ruleDef.Command, Description |-> ruleDef.Description,
   Priority |-> ruleDef.Priority, Suppressed |-> FALSE, Reason |-> <<"none">>]

\* model.Advice built for a triggered rule
NewAdvice(ruleDef) ==
  [RuleID |-> ruleDef.ID, Command |-> ruleDef.Command, Description |-> ruleDef.Description,
   Priority |-> ruleDef.Priority, Suppressed |-> FALSE, Reason |-> <<>>]

RECURSIVE appendEvery(_, _, _, _)
\* a rule loop that does not call Check
appendEvery(ruleDefs, s, k, acc) ==
  IF k > Len(ruleDefs) THEN acc
  ELSE appendEvery(ruleDefs, s, k + 1, Append(acc, NewAdvice(ruleDefs[k])))

RECURSIVE appendTriggered(_, _, _, _)
\* for _, ruleDef := range allRules { if ruleDef.Check(state) { advice = append(advice, ...) } }
appendTriggered(ruleDefs, s, k, acc) ==
  IF k > Len(ruleDefs) THEN acc
  ELSE appendTriggered(ruleDefs, s, k + 1,
         IF Check(ruleDefs[k], s) THEN Append(acc, NewAdvice(ruleDefs[k])) ELSE acc)

\* "Suppressed by " + cmd + " (higher priority)"
SuppressedBy(cmd) == <<"Suppressed", "by">> \o cmd \o <<"(higher", "priority)">>

\* first pass of applySuppression: the activeCommands map (written, never read)
activeCommands(adv) ==
  {extractCommand(adv[k].Command) : k \in {k \in 1..Len(adv) : ~adv[k].Suppressed}}

\* a membership test that looks at the first listed command only
IsTargetFirstOnly(suppressedCmds, targetCmd) ==
  Len(suppressedCmds) > 0 /\ suppressedCmds[1] = targetCmd

\* for _, suppressedCmd := range suppressedCmds { if targetCmd == suppressedCmd {...} }
IsTarget(suppressedCmds, targetCmd) ==
  \E k \in 1..Len(suppressedCmds) : suppressedCmds[k] = targetCmd

\* an inner loop that removes the targets from the list
suppressLaterDrop(adv, cmd, j) ==
  SubSeq(adv, 1, j) \o
  SelectSeq(SubSeq(adv, j + 1, Len(adv)),
            LAMBDA x : ~(\E k \in 1..Len(Suppresses[cmd]) :
                           Suppresses[cmd][k] = extractCommand(x.Command)))

RECURSIVE suppressLaterAppend(_, _, _)
\* an inner loop that appends to the reason in place of assigning it
suppressLaterAppend(adv, cmd, j) ==
  IF j < Len(adv)
  THEN suppressLaterAppend(
         IF IsTarget(Suppresses[cmd], extractCommand(adv[j + 1].Command))
         THEN [adv EXCEPT ![j + 1].Suppressed = TRUE,
                          ![j + 1].Reason = adv[j + 1].Reason \o SuppressedBy(cmd)]
         ELSE adv,
         cmd, j + 1)
  ELSE adv

RECURSIVE suppressLater(_, _, _)
\* for j := i + 1; j < len(advice); j++ {...}
suppressLater(adv, cmd, j) ==
  IF j < Len(adv)
  THEN suppressLater(
         IF IsTarget(Suppresses[cmd], extractCommand(adv[j + 1].Command))
         THEN [adv EXCEPT ![j + 1].Suppressed = TRUE, ![j + 1].Reason = SuppressedBy(cmd)]
         ELSE adv,
         cmd, j + 1)
  ELSE adv

RECURSIVE suppressPassNoSkip(_, _)
\* a second pass that lets suppressed entries suppress
suppressPassNoSkip(adv, i) ==
  IF i < Len(adv)
  THEN LET cmd == extractCommand(adv[i + 1].Command)
       IN IF cmd \in DOMAIN Suppresses
          THEN suppressPassNoSkip(suppressLater(adv, cmd, i + 1), i + 1)
          ELSE suppressPassNoSkip(adv, i + 1)
  ELSE adv

RECURSIVE suppressPassBothWays(_, _)
\* a second pass whose inner loop starts at the head of the list
suppressPassBothWays(adv, i) ==
  IF i < Len(adv)
  THEN LET cmd == extractCommand(adv[i + 1].Command)
       IN IF adv[i + 1].Suppressed THEN suppressPassBothWays(adv, i + 1)
          ELSE IF cmd \in DOMAIN Suppresses
               THEN suppressPassBothWays(suppressLater(adv, cmd, 0), i + 1)
               ELSE suppressPassBothWays(adv, i + 1)
  ELSE adv

RECURSIVE suppressPass(_, _)
\* second pass of applySuppression: for i := range advice {...}
suppressPass(adv, i) ==
  IF i < Len(adv)
  THEN LET cmd == extractCommand(adv[i + 1].Command)
       IN IF adv[i + 1].Suppressed THEN suppressPass(adv, i + 1)
          ELSE IF cmd \in DOMAIN Suppresses
               THEN suppressPass(suppressLater(adv, cmd, i + 1), i + 1)
               ELSE suppressPass(adv, i + 1)
  ELSE adv

applySuppression(adv) == suppressPass(adv, 0)

(***************************************************************************)
(* The state machine: calls of Evaluate on one snapshot                    *)
(***************************************************************************)
(* internal/action: the interactive executor behind --action.  A line read *)
(* from the terminal is the sequence of its characters; a command is its   *)
(* template's tokens together with the texts typed for its placeholders.   *)
(***************************************************************************)
WhiteSpace == {" ", "\t", "\r", "\n"}

RECURSIVE TrimLeft(_)
TrimLeft(s) == IF s # <<>> /\ s[1] \in WhiteSpace THEN TrimLeft(Tail(s)) ELSE s

RECURSIVE TrimRight(_)
TrimRight(s) ==
  IF s # <<>> /\ s[Len(s)] \in WhiteSpace THEN TrimRight(SubSeq(s, 1, Len(s) - 1)) ELSE s

\* strings.TrimSpace
TrimSpace(s) == TrimRight(TrimLeft(s))

LowerOf(c) ==
  CASE c = "Y" -> "y" [] c = "E" -> "e" [] c = "S" -> "s" [] c = "N" -> "n" [] c = "Q" -> "q"
    [] OTHER -> c

\* strings.ToLower over the letters the terminal inputs are made of
ToLower(s) == [k \in 1..Len(s) |-> LowerOf(s[k])]

Digits == <<"0", "1", "2", "3", "4", "5", "6", "7", "8", "9">>

IsDigit(c) == \E k \in 1..10 : Digits[k] = c

DigitValue(c) == (CHOOSE k \in 1..10 : Digits[k] = c) - 1

RECURSIVE digitsValue(_, _)
digitsValue(s, acc) ==
  IF s = <<>> THEN acc ELSE digitsValue(Tail(s), acc * 10 + DigitValue(s[1]))

atoiBody(s) == IF s # <<>> /\ s[1] \in {"+", "-"} THEN Tail(s) ELSE s

\* strconv.Atoi: an optional sign and decimal digits
Atoi(s) ==
  IF atoiBody(s) = <<>> \/ \E k \in 1..Len(atoiBody(s)) : ~IsDigit(atoiBody(s)[k])
  THEN [ok |-> FALSE, n |-> 0]
  ELSE [ok |-> TRUE,
        n |-> IF s[1] = "-" THEN 0 - digitsValue(atoiBody(s), 0) ELSE digitsValue(atoiBody(s), 0)]

\* reader.ReadString('\n'): a line with its terminator, or what was typed before the
\* input ended together with io.EOF
Line(s) == [text |-> s \o <<"\n">>, err |-> FALSE]

EndOfInput(s) == [text |-> s, err |-> TRUE]

\* what the user may type at the selection prompt
SelectionTexts ==
  {<<"q">>, <<"Q">>, <<"1">>, <<" ", "2">>, <<"+", "1">>, <<"0">>, <<"9">>, <<"x">>,
   <<"1", ".", "0">>, <<>>}

SelectionReads == {Line(s) : s \in SelectionTexts} \cup {EndOfInput(<<"1">>)}

\* what the user may type at the "Proceed? (y/N)" prompt
ConfirmTexts ==
  {<<"y">>, <<"y", "e", "s">>, <<"Y">>, <<"Y", "E", "S">>, <<" ", "y", " ">>, <<"n">>, <<>>,
   <<"y", "e", "a", "h">>}

ConfirmReads == {Line(s) : s \in ConfirmTexts} \cup {EndOfInput(<<"y">>)}

\* a command string: the template's tokens and the texts put in for <branch>, <files>
\* and the N of HEAD~N (empty while the placeholder was not replaced)
CommandOf(tokens) == [text |-> tokens, branch |-> <<>>, files |-> <<>>, num |-> <<>>]

BranchTokens == {"<branch>", "origin/<branch>", "--set-upstream-to=origin/<branch>"}

HasToken(cmd, toks) == \E k \in 1..Len(cmd.text) : cmd.text[k] \in toks

\* strings.Contains(cmd, "git branch -d")
IsBranchCleanup(cmd) ==
  \E k \in 1..(Len(cmd.text) - 2) :
    cmd.text[k] = "git" /\ cmd.text[k + 1] = "branch" /\ cmd.text[k + 2] = "-d"

\* the positions of a separator token that has a token on either side
SeparatorsAt(tokens, sep) == {k \in 2..(Len(tokens) - 1) : tokens[k] = sep}

RECURSIVE SplitAt(_, _)
\* strings.Split with each part trimmed
SplitAt(tokens, sep) ==
  IF SeparatorsAt(tokens, sep) = {} THEN <<tokens>>
  ELSE <<SubSeq(tokens, 1, SetMin(SeparatorsAt(tokens, sep)) - 1)>>
         \o SplitAt(SubSeq(tokens, SetMin(SeparatorsAt(tokens, sep)) + 1, Len(tokens)), sep)

\* getCurrentBranch: git rev-parse --abbrev-ref HEAD
RevParse == CommandOf(<<"git", "rev-parse", "--abbrev-ref", "HEAD">>)

\* the terminal lines and the git answer resolveCommand may consume for a command
ResolveReads(cmd) ==
  [branches : IF HasToken(cmd, BranchTokens) /\ IsBranchCleanup(cmd)
              THEN {Line(<<>>), Line(<<"o", "l", "d">>), EndOfInput(<<>>)} ELSE {Line(<<>>)},
   current  : IF HasToken(cmd, BranchTokens) /\ ~IsBranchCleanup(cmd)
              THEN {[name |-> <<"m", "a", "i", "n">>, err |-> FALSE], [name |-> <<>>, err |-> TRUE]}
              ELSE {[name |-> <<>>, err |-> TRUE]},
   files    : IF HasToken(cmd, {"<files>"})
              THEN {Line(<<>>), Line(<<"a">>), EndOfInput(<<>>)} ELSE {Line(<<>>)},
   num      : IF HasToken(cmd, {"HEAD~N"})
              THEN {Line(<<>>), Line(<<"2">>), EndOfInput(<<>>)} ELSE {Line(<<>>)},
   choice   : IF SeparatorsAt(cmd.text, "OR") # {}
              THEN {Line(<<"1">>), Line(<<"2">>), Line(<<"3">>), EndOfInput(<<>>)}
              ELSE {Line(<<>>)}]

Resolved(cmd, spawned) == [cmd |-> cmd, err |-> FALSE, spawned |-> spawned]

Failed(cmd, spawned) == [cmd |-> cmd, err |-> TRUE, spawned |-> spawned]

\* resolveCommand: the <branch> placeholder
resolveBranch(cmd, rd) ==
  IF ~HasToken(cmd, BranchTokens) THEN Resolved(cmd, <<>>)
  ELSE IF IsBranchCleanup(cmd)
       THEN IF rd.branches.err \/ TrimSpace(rd.branches.text) = <<>>
            THEN Failed(cmd, <<>>)
            ELSE Resolved([cmd EXCEPT !.branch = TrimSpace(rd.branches.text)], <<>>)
       ELSE IF rd.current.err
            THEN Failed(cmd, <<RevParse>>)
            ELSE Resolved([cmd EXCEPT !.branch = rd.current.name], <<RevParse>>)

\* resolveCommand: the <files> placeholder
resolveFiles(r, rd) ==
  IF r.err \/ ~HasToken(r.cmd, {"<files>"}) THEN r
  ELSE IF rd.files.err THEN Failed(r.cmd, r.spawned)
  ELSE IF TrimSpace(rd.files.text) = <<>>
       THEN Resolved([r.cmd EXCEPT !.files = <<".">>], r.spawned)
       ELSE Resolved([r.cmd EXCEPT !.files = TrimSpace(rd.files.text)], r.spawned)

\* resolveCommand: the HEAD~N placeholder
resolveCount(r, rd) ==
  IF r.err \/ ~HasToken(r.cmd, {"HEAD~N"}) THEN r
  ELSE IF rd.num.err THEN Failed(r.cmd, r.spawned)
  ELSE IF TrimSpace(rd.num.text) = <<>>
       THEN Resolved([r.cmd EXCEPT !.num = <<"1">>], r.spawned)
       ELSE Resolved([r.cmd EXCEPT !.num = TrimSpace(rd.num.text)], r.spawned)

\* resolveCommand: the choice between " OR " alternatives
resolveOr(r, rd, choiceNum) ==
  IF r.err \/ SeparatorsAt(r.cmd.text, "OR") = {} THEN r
  ELSE IF rd.choice.err \/ ~choiceNum.ok \/ choiceNum.n < 1
            \/ choiceNum.n > Len(SplitAt(r.cmd.text, "OR"))
       THEN Failed(r.cmd, r.spawned)
       ELSE Resolved([r.cmd EXCEPT !.text = SplitAt(r.cmd.text, "OR")[choiceNum.n]], r.spawned)

\* resolveCommand(cmd, reader)
resolveCommand(cmd, rd) ==
  resolveOr(resolveCount(resolveFiles(resolveBranch(cmd, rd), rd), rd), rd,
            Atoi(TrimSpace(rd.choice.text)))

\* executeGitCommand: the commands of an "&&" chain, each with the typed texts
commandsOf(cmd) ==
  [k \in 1..Len(SplitAt(cmd.text, "&&")) |-> [cmd EXCEPT !.text = SplitAt(cmd.text, "&&")[k]]]

\* executeGitCommand(cmd): the processes started when the command number failAt fails
\* (0: none fails)
executeGitCommand(cmd, failAt) ==
  [spawned |-> IF failAt = 0 THEN commandsOf(cmd) ELSE SubSeq(commandsOf(cmd), 1, failAt),
   err |-> failAt # 0]

\* an answer that only an empty line turns down
ConfirmedUnlessNo(confirm) == confirm # <<"n">>

\* confirm == "y" || confirm == "yes"
Confirmed(confirm) == confirm = <<"y">> \/ confirm = <<"y", "e", "s">>

\* activeAdvice of Execute
RECURSIVE activeAdviceOf(_)
activeAdviceOf(adv) ==
  IF adv = <<>> THEN <<>>
  ELSE IF adv[1].Suppressed THEN activeAdviceOf(Tail(adv))
       ELSE <<adv[1]>> \o activeAdviceOf(Tail(adv))

NoCommand == CommandOf(<<>>)

NoSession ==
  [step |-> "none", activeAdvice |-> <<>>, input |-> <<>>, cmd |-> NoCommand,
   answer |-> <<>>, confirm |-> <<>>, spawned |-> <<>>, err |-> FALSE]

(***************************************************************************)
\* The legacy engine has no configuration: its Config object stays Defaults().
Init ==
  /\ goSort \in {"pdqsort", "quickSort"}
  /\ catalog \in {"modular", "legacy"}
  /\ cfg \in (IF catalog = "modular" THEN Configs ELSE {Defaults})
  /\ state \in Snapshots
  /\ advice = <<>>
  /\ pc = "start"
  /\ results = <<>>
  /\ exitStatus = -1
  /\ session = NoSession

\* the modular engine started on a loaded configuration
InitParam ==
  /\ goSort \in {"pdqsort", "quickSort"}
  /\ catalog = "modular"
  /\ cfg \in ParamConfigs
  /\ state \in ParamSnapshots
  /\ advice = <<>>
  /\ pc = "start"
  /\ results = <<>>
  /\ exitStatus = -1
  /\ session = NoSession

\* allRules := rules.AllRules(); var advice []model.Advice; the loop over allRules
EvaluateRules ==
  /\ pc = "start"
  /\ advice' = appendTriggered(LinkedRules, state, 1, <<>>)
  /\ pc' = "sort"
  /\ UNCHANGED <<goSort, catalog, cfg, state, results, exitStatus, session>>

\* sort.Sort(model.ByPriority(advice))
SortByPriority ==
  /\ pc = "sort"
  /\ \E sorted \in SortOutcomes(goSort, advice) : advice' = sorted
  /\ pc' = "suppress"
  /\ UNCHANGED <<goSort, catalog, cfg, state, results, exitStatus, session>>

\* advice = applySuppression(advice); return advice
ApplySuppression ==
  /\ pc = "suppress"
  /\ advice' = applySuppression(advice)
  /\ results' = Append(results, advice')
  /\ pc' = "returned"
  /\ UNCHANGED <<goSort, catalog, cfg, state, exitStatus, session>>

\* the caller evaluates the same snapshot a second time
EvaluateAgain ==
  /\ pc = "returned"
  /\ Len(results) < 2
  /\ pc' = "start"
  /\ UNCHANGED <<goSort, catalog, cfg, state, advice, results, exitStatus, session>>

\* applySuppression applied to the list it has returned
ResolveAgain ==
  /\ pc = "returned"
  /\ advice' = applySuppression(advice)
  /\ pc' = "resolved"
  /\ UNCHANGED <<goSort, catalog, cfg, state, results, exitStatus, session>>

\* after an evaluation the caller changes a parameter in cfg's store and evaluates the
\* same snapshot again with the same catalog
SetParam ==
  /\ pc = "returned"
  /\ Len(results) = 1
  /\ \E p \in CatalogParams, v \in {1, MaxCommitCount} :
       cfg' = SetIntParam(cfg, p[1], p[2], v)
  /\ pc' = "start"
  /\ UNCHANGED <<goSort, catalog, state, advice, results, exitStatus, session>>

\* a count of the suppressed entries
suppressedCount(adv) == Cardinality({k \in 1..Len(adv) : adv[k].Suppressed})

\* output.FormatCompact(advice): the check mark and "clean", or the arrow and the ids of
\* the active advice
FormatCompact(adv) ==
  IF Len(activeAdviceOf(adv)) = 0 THEN <<"clean">>
  ELSE <<"->">> \o [k \in 1..Len(activeAdviceOf(adv)) |-> activeAdviceOf(adv)[k].RuleID]

\* main: for _, a := range advice { if !a.Suppressed { activeCount++ } }
activeCount(adv) == Cardinality({k \in 1..Len(adv) : ~adv[k].Suppressed})

\* main after engine.Evaluate without --action: the output is printed in the chosen
\* format (no format fails on an advice list) and the process exits
PrintAndExit ==
  /\ pc = "returned"
  /\ exitStatus' = IF activeCount(advice) > 0 THEN 1 ELSE 0
  /\ pc' = "exited"
  /\ UNCHANGED <<goSort, catalog, cfg, state, advice, results, session>>

\* the snapshots the interactive sessions start from: one fact, or one fact during a merge
ActionSnapshots ==
  {RepoState(S, 1, 1) : S \in {{}} \cup {{f} : f \in Facts} \cup {{f, "MergeInProgress"} : f \in Facts}}

\* git-next --action with the default configuration
InitAction ==
  /\ goSort \in {"pdqsort", "quickSort"}
  /\ catalog \in {"modular", "legacy"}
  /\ cfg = Defaults
  /\ state \in ActionSnapshots
  /\ advice = <<>>
  /\ pc = "start"
  /\ results = <<>>
  /\ exitStatus = -1
  /\ session = NoSession

\* Execute returns and main exits: status 1 on an error, 0 otherwise
Finish(s, failed) ==
  /\ session' = [s EXCEPT !.step = "done", !.err = failed]
  /\ exitStatus' = IF failed THEN 1 ELSE 0
  /\ pc' = "exited"

\* main with --action calls action.Execute(advice): the filter, the empty case, the menu
StartAction ==
  /\ pc = "returned"
  /\ IF Len(activeAdviceOf(advice)) = 0
     THEN Finish(NoSession, FALSE)
     ELSE /\ session' = [NoSession EXCEPT !.step = "select",
                                          !.activeAdvice = activeAdviceOf(advice)]
          /\ pc' = "action"
          /\ UNCHANGED exitStatus
  /\ UNCHANGED <<goSort, catalog, cfg, state, advice, results>>

\* Execute: the selection prompt up to selectedAdvice := activeAdvice[selection-1]
selectWith(rd, input, selection) ==
  IF rd.err THEN Finish(session, TRUE)
  ELSE IF input = <<"q">> \/ input = <<"Q">> THEN Finish([session EXCEPT !.input = input], FALSE)
  ELSE IF ~selection.ok \/ selection.n < 1 \/ selection.n > Len(session.activeAdvice)
       THEN Finish([session EXCEPT !.input = input], TRUE)
       ELSE /\ session' = [session EXCEPT !.step = "resolve", !.input = input,
                             !.cmd = CommandOf(session.activeAdvice[selection.n].Command)]
            /\ UNCHANGED <<pc, exitStatus>>

ReadSelection ==
  /\ pc = "action"
  /\ session.step = "select"
  /\ \E rd \in SelectionReads :
       selectWith(rd, TrimSpace(rd.text), Atoi(TrimSpace(rd.text)))
  /\ UNCHANGED <<goSort, catalog, cfg, state, advice, results>>

\* Execute: cmd, err = resolveCommand(cmd, reader)
resolveWith(r) ==
  IF r.err THEN Finish([session EXCEPT !.spawned = @ \o r.spawned], TRUE)
  ELSE /\ session' = [session EXCEPT !.step = "confirm", !.cmd = r.cmd,
                                      !.spawned = @ \o r.spawned]
       /\ UNCHANGED <<pc, exitStatus>>

ResolveCommand ==
  /\ pc = "action"
  /\ session.step = "resolve"
  /\ \E rd \in ResolveReads(session.cmd) : resolveWith(resolveCommand(session.cmd, rd))
  /\ UNCHANGED <<goSort, catalog, cfg, state, advice, results>>

\* Execute: the confirmation prompt and executeGitCommand(cmd)
confirmWith(rd, confirm) ==
  IF rd.err THEN Finish(session, TRUE)
  ELSE IF ~Confirmed(confirm)
       THEN Finish([session EXCEPT !.answer = rd.text, !.confirm = confirm], FALSE)
       ELSE \E failAt \in 0..Len(commandsOf(session.cmd)) :
              Finish([session EXCEPT !.answer = rd.text, !.confirm = confirm,
                        !.spawned = @ \o executeGitCommand(session.cmd, failAt).spawned],
                     executeGitCommand(session.cmd, failAt).err)

ReadConfirmation ==
  /\ pc = "action"
  /\ session.step = "confirm"
  /\ \E rd \in ConfirmReads : confirmWith(rd, TrimSpace(ToLower(rd.text)))
  /\ UNCHANGED <<goSort, catalog, cfg, state, advice, results>>

Next == EvaluateRules \/ SortByPriority \/ ApplySuppression

NextAction == Next \/ StartAction \/ ReadSelection \/ ResolveCommand \/ ReadConfirmation

SpecAction == InitAction /\ [][NextAction]_vars

Spec == Init /\ [][Next]_vars

SpecParam == InitParam /\ [][Next]_vars

NextAgain == Next \/ EvaluateAgain

SpecAgain == Init /\ [][NextAgain]_vars

NextResolve == Next \/ ResolveAgain

SpecResolve == Init /\ [][NextResolve]_vars

NextMain == Next \/ PrintAndExit

SpecMain == Init /\ [][NextMain]_vars

NextCatalog == Next \/ SetParam

SpecCatalog == Init /\ [][NextCatalog]_vars

(***************************************************************************)
(* Properties of the list Evaluate returns                                 *)
(***************************************************************************)
Returned == pc = "returned"

Positions == 1..Len(advice)

CommandKey(k) == extractCommand(advice[k].Command)

Active(k) == ~advice[k].Suppressed

\* the commands the table lists under the key cmd
TargetsOf(cmd) ==
  IF cmd \in DOMAIN Suppresses
  THEN {Suppresses[cmd][k] : k \in 1..Len(Suppresses[cmd])}
  ELSE {}

\* position of a rule in the catalog's declaration order
CatalogIndex(id) == CHOOSE k \in 1..Len(LinkedRules) : LinkedRules[k].ID = id

\* C1: the list returned by Evaluate has non-increasing priorities: for any two positions
\* i < j, the priority at i is at least the priority at j.
C1_PrioritiesNonIncreasing ==
  Returned => \A i, j \in Positions : i < j => advice[i].Priority >= advice[j].Priority

\* a returned list of at least three entries that has both a tie and a strict descent
C1_Witness ==
  /\ Returned
  /\ Len(advice) >= 3
  /\ \E i, j \in Positions : i < j /\ advice[i].Priority > advice[j].Priority
  /\ \E i, j \in Positions : i < j /\ advice[i].Priority = advice[j].Priority

OrdinaryPairs ==
  {<<<<"revert">>, <<"reset">>>>, <<<<"merge">>, <<"rebase">>>>,
   <<<<"rebase">>, <<"pull">>>>, <<<<"reset">>, <<"commit">>>>}

\* C4: whenever an active entry with the suppressing command key of an ordinary pair
\* (revert/reset, merge/rebase, rebase/pull, reset/commit) appears earlier in the list than
\* an entry with the suppressed command key, the later entry is suppressed.
C4_OrdinaryPairsSuppress ==
  Returned =>
    \A i, j \in Positions :
      i < j /\ Active(i) /\ <<CommandKey(i), CommandKey(j)>> \in OrdinaryPairs =>
        advice[j].Suppressed

\* an active rebase advice followed by a pull advice that the pass has suppressed
C4_Witness ==
  /\ Returned
  /\ \E i, j \in Positions :
       /\ i < j /\ Active(i)
       /\ CommandKey(i) = <<"rebase">> /\ CommandKey(j) = <<"pull">>
       /\ advice[j].Suppressed
       /\ advice[j].Reason = SuppressedBy(<<"rebase">>)

InProgressRules == {"R009", "R010", "R011"}

OrdinaryCommands ==
  {<<"merge">>, <<"rebase">>, <<"reset">>, <<"commit">>, <<"pull">>, <<"push">>, <<"checkout">>}

\* the reasons that cite the continuation command of a triggered in-progress rule
ContinuationReasons ==
  {SuppressedBy(CommandKey(k)) : k \in {p \in Positions : advice[p].RuleID \in InProgressRules}}

\* C5: whenever R009, R010 or R011 triggers, every triggered advice of lower priority whose
\* command key is one of merge, rebase, reset, commit, pull, push, checkout is suppressed in
\* the returned list, with a reason citing the continuation command.
C5_InProgressSuppressesOrdinary ==
  Returned =>
    \A i, j \in Positions :
      /\ advice[i].RuleID \in InProgressRules
      /\ advice[j].Priority < advice[i].Priority
      /\ CommandKey(j) \in OrdinaryCommands
      => advice[j].Suppressed /\ advice[j].Reason \in ContinuationReasons

\* R009 triggered with R004: the push advice is suppressed, citing merge --continue
C5_Witness ==
  /\ Returned
  /\ \E i, j \in Positions :
       /\ advice[i].RuleID = "R009" /\ advice[j].RuleID = "R004"
       /\ CommandKey(j) = <<"push">>
       /\ advice[j].Suppressed
       /\ advice[j].Reason = SuppressedBy(<<"merge", "--continue">>)

\* the earlier active entries whose suppression set contains the command key of entry j
ActiveSuppressorsOf(j) ==
  {i \in Positions : i < j /\ Active(i) /\ CommandKey(j) \in TargetsOf(CommandKey(i))}

\* C6: suppression is one-directional: every suppressed entry of the returned list was
\* suppressed by an entry at an earlier position that is itself active in the returned
\* list, and an entry that ends up suppressed causes no suppression.
C6_SuppressedByEarlierActive ==
  Returned =>
    \A j \in Positions :
      advice[j].Suppressed =>
        \E i \in ActiveSuppressorsOf(j) : advice[j].Reason = SuppressedBy(CommandKey(i))

\* a suppressed entry whose own suppression set names a later entry, which stays active
C6_Witness ==
  /\ Returned
  /\ \E i, j \in Positions :
       /\ i < j /\ advice[i].Suppressed /\ Active(j)
       /\ CommandKey(j) \in TargetsOf(CommandKey(i))

\* C7: the reason recorded on a suppressed entry names the command key of the earliest
\* active entry whose suppression set contains the entry's command key; a later suppressor
\* never rewrites it.
C7_FirstSuppressorWins ==
  Returned =>
    \A j \in Positions :
      advice[j].Suppressed /\ ActiveSuppressorsOf(j) # {} =>
        advice[j].Reason = SuppressedBy(CommandKey(SetMin(ActiveSuppressorsOf(j))))

\* C8: applySuppression changes only the Suppressed flag and the Reason of entries: the
\* length of the list, the order of its entries and every entry's RuleID, Command,
\* Description and Priority are the same after the pass as before it.
C8_SuppressionKeepsEntries ==
  [][pc = "suppress" =>
       /\ Len(advice') = Len(advice)
       /\ \A k \in Positions :
            /\ advice'[k].RuleID = advice[k].RuleID
            /\ advice'[k].Command = advice[k].Command
            /\ advice'[k].Description = advice[k].Description
            /\ advice'[k].Priority = advice[k].Priority]_vars

\* the pass has marked an entry in the middle of the list and left one after it active
C8_Witness ==
  /\ Returned
  /\ \E i, j, k \in Positions :
       i < j /\ j < k /\ Active(i) /\ advice[j].Suppressed /\ Active(k)

\* C9: the returned list contains no advice, active or suppressed, whose rule identifier
\* is in the configuration's disabled set.
C9_DisabledRulesAbsent ==
  Returned => \A k \in Positions : ~IsRuleDisabled(cfg, advice[k].RuleID)

C11_SuppressionIdempotent ==
  [][pc = "returned" /\ pc' = "resolved" => advice' = advice]_vars

\* the pass has been applied again to a list with a suppressed entry that has two active
\* suppressors before it
C11_Witness ==
  /\ pc = "resolved"
  /\ \E j \in Positions : advice[j].Suppressed /\ Cardinality(ActiveSuppressorsOf(j)) >= 2

\* the tokens of a reason
ReasonTokens(j) == {advice[j].Reason[k] : k \in 1..Len(advice[j].Reason)}

\* the reason of entry j holds the tokens of cmd, in order and adjacent
ReasonCites(j, cmd) ==
  \E at \in 0..(Len(advice[j].Reason) - Len(cmd)) :
    SubSeq(advice[j].Reason, at + 1, at + Len(cmd)) = cmd

\* C12 as stated: the reason is empty exactly when the advice is not suppressed, and the
\* reason of a suppressed advice identifies the command key of the entry that suppressed it
\* together with that entry's priority.
C12_ReasonNamesKeyAndPriority ==
  Returned =>
    \A j \in Positions :
      /\ advice[j].Reason = <<>> <=> ~advice[j].Suppressed
      /\ advice[j].Suppressed =>
           \E i \in ActiveSuppressorsOf(j) :
             /\ ReasonCites(j, CommandKey(i))
             /\ ToString(advice[i].Priority) \in ReasonTokens(j)

\* C12: the reason is empty exactly when the advice is not suppressed, and the reason of
\* a suppressed advice is "Suppressed by <key> (higher priority)" for the command key of an
\* earlier active entry that suppresses it; it holds no priority value.
C12_ReasonWellFormed ==
  Returned =>
    \A j \in Positions :
      /\ advice[j].Reason = <<>> <=> ~advice[j].Suppressed
      /\ advice[j].Suppressed =>
           /\ \E i \in ActiveSuppressorsOf(j) : advice[j].Reason = SuppressedBy(CommandKey(i))
           /\ \A i \in Positions : ToString(advice[i].Priority) \notin ReasonTokens(j)

\* a returned list with an active entry before and after a suppressed one
C12_Witness ==
  /\ Returned
  /\ \E i, j, k \in Positions :
       /\ i < j /\ j < k
       /\ advice[i].Reason = <<>> /\ advice[k].Reason = <<>> /\ Active(k)
       /\ advice[j].Suppressed /\ advice[j].Reason = SuppressedBy(CommandKey(i))

\* C13: parameters are bound when the catalog is built: after a change of cfg's parameter
\* store, evaluating the same snapshot with the same catalog returns the same list as before
\* the change.
C13_ParametersBoundAtBuild ==
  Returned /\ Len(results) = 2 => results[2] = results[1]

\* the snapshots with exactly the facts of S set
SnapshotsWith(S) == {RepoState(S, n, c) : n \in 1..MaxCount, c \in 1..MaxCommitCount}

\* the returned list as (rule, command, priority, suppressed) rows
Rows ==
  [k \in Positions |->
     <<advice[k].RuleID, advice[k].Command, advice[k].Priority, advice[k].Suppressed>>]

\* the configured R022 threshold is positive, as in Defaults()
MinCommitsPositive == GetIntParam(cfg, "R022", "min_commits", 4) > 0

C15_ScenarioC ==
  Returned /\ catalog = "modular" /\
  state \in SnapshotsWith({"ForcePushToShared", "ResetOnProtectedBranch"}) =>
    /\ Len(advice) >= 2
    /\ advice[1].RuleID = "R037" /\ advice[2].RuleID = "R039"
    /\ advice[1].Priority = 100 /\ advice[2].Priority = 100
    /\ Active(1) /\ Active(2)
    /\ \A k \in Positions : k > 2 => advice[k].RuleID = "R022" /\ ~MinCommitsPositive

\* the list returned for the force-push and reset-on-protected snapshot
C15_Witness ==
  /\ Returned /\ catalog = "modular"
  /\ state \in SnapshotsWith({"ForcePushToShared", "ResetOnProtectedBranch"})
  /\ Len(advice) = 2
  /\ advice[1].Priority = advice[2].Priority

\* C16: for the snapshot in which every flag is false, every count zero and every list
\* empty, Evaluate returns an empty list under any parameter values.
C16_ScenarioD ==
  Returned /\ state \in SnapshotsWith({}) => advice = <<>>

\* C17: the exit status is non-zero exactly when the final list contains at least one
\* active entry; an empty list, or a list in which every entry is suppressed, gives 0.
C17_ExitStatus ==
  pc = "exited" => (exitStatus # 0 <=> \E k \in Positions : Active(k))

\* main has exited on a list that holds a suppressed entry as well as an active one
C17_Witness ==
  /\ pc = "exited"
  /\ exitStatus = 1
  /\ \E j, k \in Positions : advice[j].Suppressed /\ Active(k)

\* C18: for every snapshot with OnProtectedBranch set, the final list contains no active
\* advice whose command key is rebase.
C18_NoActiveRebaseOnProtected ==
  Returned /\ state.OnProtectedBranch =>
    \A k \in Positions : Active(k) => CommandKey(k) # <<"rebase">>


\* the five tier lists of the modular catalog, most severe first
TierCatalogs ==
  <<DangerousRules(CfgPtr), IntegrityRules, WorkflowRules(CfgPtr),
    SuggestionRules, InformationalRules>>

TierLow == <<90, 60, 30, 10, 0>>

TierHigh == <<100, 89, 59, 29, 9>>

RuleIDs(rules) == {rules[k].ID : k \in 1..Len(rules)}

InRange(rules, lo, hi) ==
  \A k \in 1..Len(rules) : rules[k].Priority >= lo /\ rules[k].Priority <= hi

\* the tiers that have an entry in the list
TiersIn(adv) ==
  {t \in 1..5 : \E k \in 1..Len(adv) : adv[k].RuleID \in RuleIDs(TierCatalogs[t])}

TiersInRange(tiers) ==
  \A t \in 1..5 : InRange(tiers[t], TierLow[t], TierHigh[t])

TiersDisjoint(tiers) ==
  \A t, u \in 1..5 : t # u => RuleIDs(tiers[t]) \cap RuleIDs(tiers[u]) = {}

AdviceInTierRange(adv, tiers) ==
  \A k \in 1..Len(adv) : \A t \in 1..5 :
    (\E r \in 1..Len(tiers[t]) : tiers[t][r].ID = adv[k].RuleID)
      => adv[k].Priority >= TierLow[t] /\ adv[k].Priority <= TierHigh[t]

\* C19: every rule of DangerousRules has priority in 90..100, of
\* IntegrityRules in 60..89, of WorkflowRules in 30..59, of SuggestionRules
\* in 10..29 and of InformationalRules below 10, so each advice entry the
\* engine builds from the modular catalog carries a priority of the range
\* of its rule's tier, and no rule belongs to two tiers.
C19_PriorityDeterminesTier ==
  /\ TiersInRange(TierCatalogs)
  /\ TiersDisjoint(TierCatalogs)
  /\ catalog = "modular" => AdviceInTierRange(advice, TierCatalogs)

\* a returned list of the modular catalog holding advice of four tiers or more,
\* the informational tier among them
C19_Witness ==
  /\ Returned
  /\ catalog = "modular"
  /\ 5 \in TiersIn(advice)
  /\ Cardinality(TiersIn(advice)) >= 4

InTierOrder(rules, tiers) ==
  rules = tiers[1] \o tiers[2] \o tiers[3] \o tiers[4] \o tiers[5]

PrioritiesFall(rules) ==
  \A k \in 1..(Len(rules) - 1) : rules[k].Priority >= rules[k + 1].Priority

IndexIn(rules, id) == CHOOSE k \in 1..Len(rules) : rules[k].ID = id

\* C20: AllRules lists the tiers in the order dangerous, integrity, workflow,
\* suggestion, informational, each in its declaration order, the priorities
\* never increase along the catalog, and so the list Evaluate appends from
\* the modular catalog is already in non-increasing priority before the sort.
C20_CatalogInTierOrder ==
  pc = "sort" /\ catalog = "modular" =>
    /\ InTierOrder(AllRules(CfgPtr), TierCatalogs)
    /\ PrioritiesFall(AllRules(CfgPtr))
    /\ \A k \in 1..(Len(advice) - 1) :
         /\ advice[k].Priority >= advice[k + 1].Priority
         /\ IndexIn(AllRules(CfgPtr), advice[k].RuleID)
              < IndexIn(AllRules(CfgPtr), advice[k + 1].RuleID)

\* the appended list, not yet sorted, holds advice of three tiers or more
C20_Witness ==
  /\ pc = "sort"
  /\ catalog = "modular"
  /\ Cardinality(TiersIn(advice)) >= 3
  /\ 5 \in TiersIn(advice)


\* what the configuration file holds for a parameter
Stored(c, ruleID, param) ==
  IF ruleID \notin DOMAIN c.Rules.Parameters THEN NoRule
  ELSE IF param \notin DOMAIN c.Rules.Parameters[ruleID] THEN NoParam
  ELSE c.Rules.Parameters[ruleID][param]

IsNumber(v) == v.type \in {"int", "float64"}

\* the integer nearest to zero-side of the ratio n / d: the only t with |t| * d <= |n| < (|t| + 1) * d
\* and the sign of n
IsTruncationOf(t, n, d) ==
  /\ (n >= 0 => t >= 0 /\ t * d <= n /\ n < (t + 1) * d)
  /\ (n < 0 => t <= 0 /\ t * d >= n /\ n > (t - 1) * d)

\* the value the specification's sentence and its correction give for a stored value
ResolvesTo(r, v, d) ==
  CASE v.type = "int" -> r = v.val
    [] v.type = "float64" -> IsTruncationOf(r, v.val, v.den)
    [] OTHER -> r = d

RuleFires(id) == \E k \in Positions : advice[k].RuleID = id

SessionOver == session.step = "done"

\* the processes of the session that run an advised command (the others ask git for the
\* current branch)
AdvisedRuns == {k \in 1..Len(session.spawned) : session.spawned[k] # RevParse}

ValidSelection ==
  /\ Atoi(session.input).ok
  /\ Atoi(session.input).n \in 1..activeCount(advice)

\* the typed answer without its line terminator
TypedAnswer == SubSeq(session.answer, 1, Len(session.answer) - 1)

\* the commands a template can be resolved to: the parts of an "&&" chain of one of its
\* " OR " alternatives
RunnableParts(template) ==
  UNION {{SplitAt(alt, "&&")[k] : k \in 1..Len(SplitAt(alt, "&&"))} :
           alt \in {SplitAt(template, "OR")[a] : a \in 1..Len(SplitAt(template, "OR"))}}

\* C22 as stated: an advised command is run only after the answer 'y' or 'yes', and any
\* other answer ends the session with no command executed.
C22_NothingRunsWithoutExactYes ==
  SessionOver /\ AdvisedRuns # {} => TypedAnswer \in {<<"y">>, <<"y", "e", "s">>}

\* C22: in --action mode the menu holds the active advice only, in the order of the list;
\* an advised command runs only after a selection that parses to a menu number and an
\* answer that is 'y' or 'yes' once lower-cased and trimmed, and it is a command of the
\* selected active advice; 'q', an out-of-range or non-numeric selection ends the session
\* with no process started, and any other answer ends it with no advised command run (the
\* only process started before the answer is git rev-parse for a <branch> placeholder).
C22_RunsOnlySelectedAndConfirmed ==
  /\ pc \in {"action", "exited"} /\ session.step # "none" =>
       /\ Len(session.activeAdvice) = activeCount(advice)
       /\ \A k \in 1..Len(session.activeAdvice) :
            /\ ~session.activeAdvice[k].Suppressed
            /\ \E j \in Positions : advice[j] = session.activeAdvice[k]
       /\ \A k \in 1..(Len(session.activeAdvice) - 1) :
            session.activeAdvice[k].Priority >= session.activeAdvice[k + 1].Priority
  /\ AdvisedRuns # {} =>
       /\ SessionOver
       /\ ValidSelection
       /\ TrimSpace(ToLower(TypedAnswer)) \in {<<"y">>, <<"y", "e", "s">>}
       /\ \E j \in Positions :
            /\ Active(j)
            /\ session.activeAdvice[Atoi(session.input).n] = advice[j]
            /\ \A k \in AdvisedRuns :
                 session.spawned[k].text \in RunnableParts(advice[j].Command)
  /\ SessionOver /\ session.activeAdvice # <<>> /\ ~ValidSelection => session.spawned = <<>>
  /\ session.input \in {<<"q">>, <<"Q">>} => session.spawned = <<>> /\ ~session.err
  /\ SessionOver /\ session.answer # <<>>
       /\ TrimSpace(ToLower(TypedAnswer)) \notin {<<"y">>, <<"y", "e", "s">>}
       => AdvisedRuns = {} /\ ~session.err

\* a session over a list with a suppressed entry, in which an active advice was selected
\* by its menu number, confirmed and run
C22_Witness ==
  /\ SessionOver
  /\ \E k \in Positions : ~Active(k)
  /\ ValidSelection
  /\ TypedAnswer = <<"y", "e", "s">>
  /\ AdvisedRuns # {}
  /\ ~session.err


\* the catalog positions whose predicate is true on the snapshot
Triggered == {k \in 1..Len(LinkedRules) : Check(LinkedRules[k], state)}

\* the advice entries emitted for a catalog position
EmittedFor(rules, k) == {j \in Positions : advice[j].RuleID = rules[k].ID}

CopiesRule(a, r) ==
  /\ a.RuleID = r.ID
  /\ a.Command = r.Command
  /\ a.Description = r.Description
  /\ a.Priority = r.Priority
  /\ a.Suppressed = FALSE
  /\ a.Reason = <<>>

EmitsTriggered(rules, fired) ==
  /\ Len(advice) = Cardinality(fired)
  /\ \A k \in 1..Len(rules) :
       IF k \in fired
       THEN /\ Cardinality(EmittedFor(rules, k)) = 1
            /\ \A j \in EmittedFor(rules, k) : CopiesRule(advice[j], rules[k])
       ELSE EmittedFor(rules, k) = {}

\* C23: before the sort and the suppression, the list holds exactly one advice for each
\* catalog rule whose predicate is true on the snapshot and none for a rule whose predicate
\* is false; each advice copies the rule's ID, Command, Description and Priority, is not
\* suppressed and has an empty reason.
C23_OneAdvicePerTriggeredRule ==
  pc = "sort" => EmitsTriggered(LinkedRules, Triggered)

\* three or more rules have triggered, one of them with a configured threshold
C23_Witness ==
  /\ pc = "sort"
  /\ Len(advice) >= 3
  /\ \E j \in Positions : advice[j].RuleID = "R020"
  /\ \E j \in Positions : advice[j].Priority = 100


RuleWithID(rules, id) == rules[IndexIn(rules, id)]

\* the segments of an "&&" chain and the alternatives of an " OR " template
Segments(template) == SplitAt(template, "&&")

Alternatives(template) == SplitAt(template, "OR")

KeysFollowTemplate(rules) ==
  \A k \in 1..Len(rules) :
    /\ Len(Segments(rules[k].Command)) > 1 =>
         extractCommand(rules[k].Command)
           = extractCommand(Segments(rules[k].Command)[Len(Segments(rules[k].Command))])
    /\ Len(Alternatives(rules[k].Command)) > 1 =>
         extractCommand(rules[k].Command) = extractCommand(Alternatives(rules[k].Command)[1])

\* C24: the command key of an "&&" template is the key of its last segment and the key of
\* an " OR " template is the key of its first alternative: R002 has key commit and R006 has
\* key rebase; whenever the soft-reset advice R020 is active in a returned list, R003 and
\* R002 are suppressed where they appear.
C24_KeyOfCompoundTemplates ==
  Returned =>
    /\ KeysFollowTemplate(LinkedRules)
    /\ extractCommand(RuleWithID(LinkedRules, "R002").Command) = <<"commit">>
    /\ extractCommand(RuleWithID(LinkedRules, "R006").Command) = <<"rebase">>
    /\ (\E k \in Positions : advice[k].RuleID = "R020" /\ Active(k)) =>
         \A j \in Positions : advice[j].RuleID \in {"R002", "R003"} => ~Active(j)

\* R020 is active and R002 is in the list
C24_Witness ==
  /\ Returned
  /\ \E k \in Positions : advice[k].RuleID = "R020" /\ Active(k)
  /\ \E j \in Positions : advice[j].RuleID = "R002"


\* the RepoState fields the legacy rules read
LegacyFacts ==
  {"Dirty", "StagedFiles", "ModifiedFiles", "UntrackedFiles", "Ahead", "Behind", "HasStash",
   "OnDetachedHead", "LastCommitPushed", "CommitCountSincePush", "OnProtectedBranch",
   "HasMergeCommits", "MergeInProgress", "RebaseInProgress", "CherryPickInProgress",
   "NoUpstream", "MergedBranches", "GoneBranches"}

\* the fields introduced with the rules R037-R058
ModularFacts == Facts \ LegacyFacts

IsSet(s, f) ==
  CASE f \in BoolFacts -> s[f]
    [] f \in ListFacts -> s[f] # <<>>
    [] OTHER           -> s[f] > 0

\* the lists Evaluate returns for a snapshot when it is linked against a catalog
EvaluateWith(rules, s, impl) ==
  {applySuppression(sorted) : sorted \in SortOutcomes(impl, appendTriggered(rules, s, 1, <<>>))}

\* C25: for a snapshot in which every fact introduced by the modular rules R037-R058 is
\* false, zero or empty, and with the default parameters, the engine linked against the
\* legacy catalog and the engine linked against the modular catalog return the same list:
\* same entries, same order, same suppressed flags and reasons.
C25_CatalogsAgreeOnSharedRules ==
  Returned /\ cfg = Defaults /\ (\A f \in ModularFacts : ~IsSet(state, f)) =>
    /\ EvaluateWith(LegacyAllRules, state, goSort) = {advice}
    /\ EvaluateWith(AllRules(CfgPtr), state, goSort) = {advice}

\* a legacy-facts snapshot with four unpushed commits during a merge, evaluated with the
\* modular catalog
C25_Witness ==
  /\ Returned
  /\ catalog = "modular"
  /\ cfg = Defaults
  /\ \A f \in ModularFacts : ~IsSet(state, f)
  /\ state.CommitCountSincePush = 4
  /\ \E k \in Positions : advice[k].RuleID = "R022" /\ ~Active(k)


\* C26: the first entry of a non-empty returned list is never suppressed, so a non-empty
\* list always holds an active advice: the compact output is "clean" only for the empty
\* list, and main (without --action) exits with status 0 exactly when the list is empty.
C26_NonEmptyListHasActiveAdvice ==
  /\ pc \in {"returned", "exited"} /\ advice # <<>> => Active(1)
  /\ pc \in {"returned", "exited"} => (FormatCompact(advice) = <<"clean">> <=> advice = <<>>)
  /\ pc = "exited" => (exitStatus = 0 <=> advice = <<>>)

\* main has exited on a list whose entries after the first are all suppressed
C26_Witness ==
  /\ pc = "exited"
  /\ exitStatus = 1
  /\ Len(advice) >= 3
  /\ \A k \in 2..Len(advice) : ~Active(k)


\* every command the table lists as suppressed
AllTargets == UNION {TargetsOf(cmd) : cmd \in DOMAIN Suppresses}

\* C27: continuation advice is never suppressed: whenever R009, R010 or R011 triggers it is
\* active in the returned list, also when two or three of the operations are in progress
\* together; its command key ends in --continue and no suppression set holds such a key.
C27_ContinuationNeverSuppressed ==
  Returned =>
    \A k \in Positions :
      advice[k].RuleID \in InProgressRules =>
        /\ Active(k)
        /\ Len(CommandKey(k)) = 2
        /\ CommandKey(k)[2] = "--continue"
        /\ CommandKey(k) \notin AllTargets

\* merge, rebase and cherry-pick are in progress together
C27_Witness ==
  /\ Returned
  /\ state.MergeInProgress /\ state.RebaseInProgress /\ state.CherryPickInProgress
  /\ \A id \in InProgressRules : \E k \in Positions : advice[k].RuleID = id /\ Active(k)


\* an advice whose template is a comment, not a command
IsWarning(a) == a.Command[1] = "#"

WarningRules(rules) == {rules[k].ID : k \in {p \in 1..Len(rules) : rules[p].Command[1] = "#"}}

\* the list as it was before suppression
Unsuppressed(adv) ==
  [k \in 1..Len(adv) |-> [adv[k] EXCEPT !.Suppressed = FALSE, !.Reason = <<>>]]

WithoutWarnings(adv) == SelectSeq(adv, LAMBDA a : ~IsWarning(a))

C29_NoResetOfPushedCommit ==
  Returned =>
    /\ ~(RuleFires("R020") /\ RuleFires("R021"))
    /\ state.LastCommitPushed =>
         \A k \in Positions : CommandKey(k) = <<"reset">> => ~Active(k)

\* a pushed last commit with a commit count inside a raised max_commits: R021 is advised
C29_Witness ==
  /\ Returned
  /\ state.LastCommitPushed
  /\ state.CommitCountSincePush = 2
  /\ GetIntParam(cfg, "R020", "max_commits", 3) = MaxCommitCount
  /\ RuleFires("R021")


\* the pairs of catalog rules of equal priority of which one's key suppresses the other's
EqualPrioritySuppression(rules) ==
  {<<a, b>> \in (1..Len(rules)) \X (1..Len(rules)) :
     /\ rules[a].Priority = rules[b].Priority
     /\ extractCommand(rules[b].Command) \in TargetsOf(extractCommand(rules[a].Command))}

\* C30: with the modular catalog a suppressor has a strictly higher priority than what it
\* suppresses: every suppressed advice of a returned list has an earlier active entry whose
\* key its reason names, every earlier active entry whose key suppresses it has a strictly
\* higher priority, and no two rules of equal priority are in the suppression relation.
C30_SuppressorHasHigherPriority ==
  Returned /\ catalog = "modular" =>
    /\ EqualPrioritySuppression(AllRules(CfgPtr)) = {}
    /\ \A j \in Positions :
         ~Active(j) =>
           /\ \E i \in ActiveSuppressorsOf(j) : advice[j].Reason = SuppressedBy(CommandKey(i))
           /\ \A i \in ActiveSuppressorsOf(j) : advice[i].Priority > advice[j].Priority

\* a returned list with two entries of equal priority and a suppressed entry whose
\* suppressor is not at the head of the list
C30_Witness ==
  /\ Returned
  /\ catalog = "modular"
  /\ \E i, j \in Positions : i < j /\ advice[i].Priority = advice[j].Priority
  /\ \E k \in Positions : ~Active(k) /\ 1 \notin ActiveSuppressorsOf(k)

====
